---- MODULE Spec2Model ----
(***************************************************************************)
(* Pitch accent engine (rschein2/PitchAccent): the accent computation of  *)
(* src/pitch_accent/engine.py and the compound-noun sandhi of             *)
(* src/pitch_accent/compound.py.                                           *)
(*                                                                         *)
(* A Python str is a sequence of code points (integers); None is <<>> and  *)
(* an Optional value x is <<x>>.  An L/H pattern is a sequence of the      *)
(* one-letter strings "L" and "H".                                         *)
(***************************************************************************)
EXTENDS Integers, Sequences, FiniteSets, TLC

VARIABLES
    fn,     \* the function being called
    args,   \* its arguments
    ret,    \* its return value (None until it returns)
    pc,     \* "call" before the call, "return" after it, "raise" on an exception,
            \* "loop" inside the loop of the function
    \* the local variables of compute_accent
    next_morph,       \* index in morphemes of the next morpheme of the loop
    current_accent,
    current_mora,
    reading,
    surface,
    breakdown,
    \* the frame of AnkiGenerator.process_sentences and process_sentence while
    \* they run (<<>> otherwise): the sentences, the loop indices, the
    \* annotated words of the current sentence, the cards
    driver,
    \* the AccentEngine object: its fields suffix_rules, verb_patterns and
    \* suffix_by_surface
    engine,
    \* the frame of SentenceParser.parse_sentence while its loop runs (<<>>
    \* otherwise): the index i and the list words
    parser

locals == <<next_morph, current_accent, current_mora, reading, surface, breakdown>>
vars == <<fn, args, ret, pc, locals, driver, engine, parser>>

\* engine.py lines 50-62, AccentEngine.__init__: the two tables of the rules
\* file, and suffix_by_surface, which lists under each surface the rules of
\* suffix_rules that have it, in the order of the file.  suffix_rules is the
\* list of the file's (key, rule) pairs, suffix_by_surface a set of
\* (surface, rules) pairs.
AccentEngine(data) ==
    LET rules == [k \in 1..Len(data.suffix_rules) |-> data.suffix_rules[k][2]] IN
    [suffix_rules |-> data.suffix_rules,
     verb_patterns |-> data.verb_inflection_patterns,
     suffix_by_surface |->
        {<<rules[k].surface, SelectSeq(rules, LAMBDA r : r.surface = rules[k].surface)>> :
            k \in 1..Len(rules)}]

\* rules files: one without rules, one with two rules for the surface ta and
\* one for masu
RulesFiles ==
    {[suffix_rules |-> <<>>, verb_inflection_patterns |-> <<>>],
     [suffix_rules |->
        <<<<"ta_1", [surface |-> <<\h305F>>, rule |-> "F2@1"]>>,
          <<"masu", [surface |-> <<\h307E, \h3059>>, rule |-> "F4@1"]>>,
          <<"ta_2", [surface |-> <<\h305F>>, rule |-> "F1"]>>>>,
      verb_inflection_patterns |-> <<<<"M1", "M1@1">>>>]}

\* the local variables before they are assigned, no driver frame, and an
\* engine constructed from the second rules file
NoLocals ==
    /\ next_morph = 0 /\ current_accent = 0 /\ current_mora = 0
    /\ reading = <<>> /\ surface = <<>> /\ breakdown = <<>>
    /\ driver = <<>>
    /\ engine = AccentEngine(CHOOSE d \in RulesFiles : d.suffix_rules # <<>>)
    /\ parser = <<>>

-----------------------------------------------------------------------------
(* Bounds of the checked inputs.                                           *)

MaxAccent == 6       \* accent types 0..MaxAccent are tried
MaxNegAccent == 1    \* and the negative ones down to -MaxNegAccent
MaxMora == 5         \* mora counts 0..MaxMora
MaxParam == 2        \* F-rule parameters M and L in -MaxParam..MaxParam
MaxModLen == 5       \* aModType strings of up to MaxModLen code points
MaxBaseAccent == 3   \* base accents 0..MaxBaseAccent given to apply_mod_type
MaxAux == 2          \* auxiliaries after the head word given to compute_accent
MaxN1Len == 2        \* N1 readings of up to MaxN1Len code points
MaxN2Len == 5        \* N2 readings of up to MaxN2Len plain kana
MaxN2Accent == 5     \* N2 accents 0..MaxN2Accent
MaxComponents == 3   \* components given to compute_multi_noun_compound
MaxNumeral == 24      \* numerals up to MaxNumeral (and 100, 1000, 10000)
MaxNegNumeral == 1    \* numerals down to -MaxNegNumeral
MaxCounterAccent == 1 \* counter accents 0..MaxCounterAccent
MaxWords == 2        \* content words of a sentence
MaxSentences == 2    \* sentences given to process_sentences
MaxNumeralMorphemes == 2  \* numeral morphemes given to process_numeral_phrase
MaxReading == 2100    \* number_to_reading on -MaxNegReading..MaxReading
MaxNegReading == 30   \* number_to_reading on negative integers
MaxKanaLen == 3       \* kana strings of up to MaxKanaLen code points
MaxNodes == 4         \* parse_sentence on up to MaxNodes tokenizer nodes
MaxScanNodes == 3     \* the loop of parse_sentence on up to MaxScanNodes nodes

-----------------------------------------------------------------------------
(* Code points.                                                            *)

ch_star == \h2A      \* '*'
ch_comma == \h2C     \* ','
ch_minus == \h2D     \* '-'
ch_0 == \h30         \* '0'
ch_1 == \h31         \* '1'
ch_2 == \h32         \* '2'
ch_4 == \h34         \* '4'
ch_9 == \h39         \* '9'
ch_at == \h40        \* '@'
ch_F == \h46         \* 'F'
ch_M == \h4D         \* 'M'
ch_x == \h78         \* 'x'

None == <<>>
Some(x) == <<x>>

\* str * n of Python: n copies of the one-character string c, none when n <= 0
Rep(c, n) == [i \in 1..n |-> c]

Max(a, b) == IF a >= b THEN a ELSE b

\* str.isdigit() of one ASCII character
IsDigit(c) == ch_0 <= c /\ c <= ch_9

\* the number of consecutive digits of s from index i on (the greedy \d+)
RECURSIVE DigitRun(_, _)
DigitRun(s, i) ==
    IF i <= Len(s) /\ IsDigit(s[i]) THEN 1 + DigitRun(s, i + 1) ELSE 0

\* int() of a non-empty string of ASCII digits
RECURSIVE DecVal(_)
DecVal(s) ==
    IF s = <<>> THEN 0
    ELSE 10 * DecVal(SubSeq(s, 1, Len(s) - 1)) + (s[Len(s)] - ch_0)

-----------------------------------------------------------------------------
(* AccentEngine.accent_to_pattern                                          *)

accent_to_pattern_late_drop(accent_type, mora_count, include_particle) ==
    IF mora_count = 0 THEN <<>>
    ELSE LET total == mora_count + (IF include_particle THEN 1 ELSE 0) IN
         IF mora_count = 1 /\ ~include_particle
         THEN (IF accent_type = 1 THEN <<"H">> ELSE <<"L">>)
         ELSE IF accent_type = 0 THEN <<"L">> \o Rep("H", total - 1)
         ELSE IF accent_type = 1 THEN <<"H">> \o Rep("L", total - 1)
         ELSE IF accent_type > total THEN <<"L">> \o Rep("H", total - 1)
         ELSE <<"L">> \o Rep("H", accent_type) \o Rep("L", total - accent_type - 1)

accent_to_pattern_no_atamadaka(accent_type, mora_count, include_particle) ==
    IF mora_count = 0 THEN <<>>
    ELSE LET total == mora_count + (IF include_particle THEN 1 ELSE 0) IN
         IF mora_count = 1 /\ ~include_particle
         THEN (IF accent_type = 1 THEN <<"H">> ELSE <<"L">>)
         ELSE IF accent_type = 0 THEN <<"L">> \o Rep("H", total - 1)
         ELSE IF accent_type > total THEN <<"L">> \o Rep("H", total - 1)
         ELSE <<"L">> \o Rep("H", accent_type - 1) \o Rep("L", total - accent_type)

accent_to_pattern(accent_type, mora_count, include_particle) ==
    IF mora_count = 0 THEN <<>>
    ELSE LET total == mora_count + (IF include_particle THEN 1 ELSE 0) IN
         IF mora_count = 1 /\ ~include_particle
         THEN (IF accent_type = 1 THEN <<"H">> ELSE <<"L">>)
         ELSE IF accent_type = 0 THEN <<"L">> \o Rep("H", total - 1)
         ELSE IF accent_type = 1 THEN <<"H">> \o Rep("L", total - 1)
         ELSE IF accent_type > total THEN <<"L">> \o Rep("H", total - 1)
         ELSE LET high_count == accent_type - 1
                  low_count == total - accent_type
              IN  <<"L">> \o Rep("H", high_count) \o Rep("L", low_count)

-----------------------------------------------------------------------------
(* AccentEngine.apply_f_rule                                               *)

str_F1 == <<ch_F, ch_1>>
str_F2 == <<ch_F, ch_2>>
str_F3 == <<ch_F, \h33>>
str_F4 == <<ch_F, ch_4>>
str_F5 == <<ch_F, \h35>>
str_F6 == <<ch_F, \h36>>
FTypes == {str_F1, str_F2, str_F3, str_F4, str_F5, str_F6}

apply_f_rule_F6_uses_M(f_type, m_val, l_val, prev_accent, prev_mora) ==
    LET m == IF m_val # None THEN m_val[1] ELSE 0 IN
    IF f_type = str_F1 THEN prev_accent
    ELSE IF f_type = str_F2 THEN (IF prev_accent = 0 THEN prev_mora + m ELSE prev_accent)
    ELSE IF f_type = str_F3 THEN (IF prev_accent = 0 THEN 0 ELSE prev_mora + m)
    ELSE IF f_type = str_F4 THEN prev_mora + m
    ELSE IF f_type = str_F5 THEN 0
    ELSE IF f_type = str_F6 THEN prev_mora + m
    ELSE prev_accent

apply_f_rule(f_type, m_val, l_val, prev_accent, prev_mora) ==
    LET m == IF m_val # None THEN m_val[1] ELSE 0
        l == IF l_val # None THEN l_val[1] ELSE 0
    IN
    IF f_type = str_F1 THEN prev_accent
    ELSE IF f_type = str_F2 THEN (IF prev_accent = 0 THEN prev_mora + m ELSE prev_accent)
    ELSE IF f_type = str_F3 THEN (IF prev_accent = 0 THEN 0 ELSE prev_mora + m)
    ELSE IF f_type = str_F4 THEN prev_mora + m
    ELSE IF f_type = str_F5 THEN 0
    ELSE IF f_type = str_F6 THEN (IF prev_accent = 0 THEN prev_mora + m ELSE prev_mora + l)
    ELSE prev_accent

-----------------------------------------------------------------------------
(* AccentEngine.apply_mod_type                                             *)

\* re.match(r"M(\d+)@(-?\d+)", mod_type): None, or the two groups.  re.match
\* anchors the pattern at the start of the string only; text after the match
\* is not looked at.
mod_type_match(mod_type) ==
    LET d1 == DigitRun(mod_type, 2)
        at == 2 + d1
        neg == at + 1 <= Len(mod_type) /\ mod_type[at + 1] = ch_minus
        from == at + 1 + (IF neg THEN 1 ELSE 0)
        d2 == DigitRun(mod_type, from)
    IN  IF /\ Len(mod_type) >= 1 /\ mod_type[1] = ch_M
           /\ d1 >= 1
           /\ at <= Len(mod_type) /\ mod_type[at] = ch_at
           /\ d2 >= 1
        THEN Some([m_type |-> DecVal(SubSeq(mod_type, 2, at - 1)),
                   m_val |-> (IF neg THEN -1 ELSE 1)
                             * DecVal(SubSeq(mod_type, from, from + d2 - 1))])
        ELSE None

apply_mod_type(mod_type, base_accent) ==
    IF mod_type = <<>> \/ mod_type = <<ch_star>> THEN base_accent
    ELSE LET match == mod_type_match(mod_type) IN
         IF match = None THEN base_accent
         ELSE LET m_type == match[1].m_type
                  m_val == match[1].m_val
              IN  IF m_type = 4
                  THEN (IF base_accent = 0 THEN 0 ELSE Max(0, base_accent - m_val))
                  ELSE IF m_type = 1 THEN m_val
                  ELSE base_accent

-----------------------------------------------------------------------------
(* Calls of the pure functions: the arguments are drawn by the initial     *)
(* condition, the one action of each specification applies the function.   *)

\* every string of up to n code points of the alphabet A
StringsUpTo(A, n) == UNION {[1..k -> A] : k \in 0..n}

OptParams == {None} \cup {Some(p) : p \in -MaxParam..MaxParam}

ModAlphabet == {ch_M, ch_1, ch_4, ch_at, ch_minus, ch_x}
ModTypeInputs == StringsUpTo(ModAlphabet, MaxModLen) \cup {<<ch_star>>}

InitPattern ==
    /\ fn = "accent_to_pattern"
    /\ args \in [accent_type : -MaxNegAccent..MaxAccent,
                 mora_count : 0..MaxMora,
                 include_particle : BOOLEAN]
    /\ ret = None
    /\ pc = "call"
    /\ NoLocals

call_accent_to_pattern ==
    /\ pc = "call" /\ fn = "accent_to_pattern"
    /\ ret' = accent_to_pattern(args.accent_type, args.mora_count, args.include_particle)
    /\ pc' = "return"
    /\ UNCHANGED <<fn, args, locals, driver, engine, parser>>

SpecPattern == InitPattern /\ [][call_accent_to_pattern]_vars

InitFRule ==
    /\ fn = "apply_f_rule"
    /\ args \in [f_type : FTypes, m_val : OptParams, l_val : OptParams,
                 prev_accent : 0..MaxAccent, prev_mora : 0..MaxMora]
    /\ ret = None
    /\ pc = "call"
    /\ NoLocals

call_apply_f_rule ==
    /\ pc = "call" /\ fn = "apply_f_rule"
    /\ ret' = apply_f_rule(args.f_type, args.m_val, args.l_val,
                           args.prev_accent, args.prev_mora)
    /\ pc' = "return"
    /\ UNCHANGED <<fn, args, locals, driver, engine, parser>>

SpecFRule == InitFRule /\ [][call_apply_f_rule]_vars

InitModType ==
    /\ fn = "apply_mod_type"
    /\ args \in [mod_type : ModTypeInputs, base_accent : 0..MaxBaseAccent]
    /\ ret = None
    /\ pc = "call"
    /\ NoLocals

call_apply_mod_type ==
    /\ pc = "call" /\ fn = "apply_mod_type"
    /\ ret' = apply_mod_type(args.mod_type, args.base_accent)
    /\ pc' = "return"
    /\ UNCHANGED <<fn, args, locals, driver, engine, parser>>

SpecModType == InitModType /\ [][call_apply_mod_type]_vars

-----------------------------------------------------------------------------
(* Strings.                                                                *)

ch_percent == \h25   \* '%'
ch_plus == \h2B      \* '+'

\* the index of the first c in s, 0 when there is none
RECURSIVE IndexFrom(_, _, _)
IndexFrom(s, c, k) ==
    IF k > Len(s) THEN 0
    ELSE IF s[k] = c THEN k ELSE IndexFrom(s, c, k + 1)

IndexOf(s, c) == IndexFrom(s, c, 1)

\* s.split(c)
RECURSIVE Split(_, _)
Split(s, c) ==
    LET k == IndexOf(s, c) IN
    IF k = 0 THEN <<s>>
    ELSE <<SubSeq(s, 1, k - 1)>> \o Split(SubSeq(s, k + 1, Len(s)), c)

\* sub in s
Contains(s, sub) ==
    \E k \in 0..(Len(s) - Len(sub)) : SubSeq(s, k + 1, k + Len(sub)) = sub

\* int(s) for a string of ASCII characters: the value, or None where Python
\* raises ValueError
py_int(s) ==
    LET signed == Len(s) >= 1 /\ s[1] \in {ch_minus, ch_plus}
        digits == IF signed THEN Tail(s) ELSE s
    IN  IF digits # <<>> /\ DigitRun(digits, 1) = Len(digits)
        THEN Some((IF signed /\ s[1] = ch_minus THEN -1 ELSE 1) * DecVal(digits))
        ELSE None

-----------------------------------------------------------------------------
(* AccentEngine: count_mora, _kata_to_hira, _parse_acon_for_pos.           *)

\* AccentEngine.SMALL_KANA (which holds the two sokuon) and AccentEngine.SOKUON
SMALL_KANA ==
    {\h3041, \h3043, \h3045, \h3047, \h3049, \h3083, \h3085, \h3087, \h308E,
     \h30A1, \h30A3, \h30A5, \h30A7, \h30A9, \h30E3, \h30E5, \h30E7, \h30EE,
     \h3063, \h30C3}
SOKUON == {\h3063, \h30C3}

RECURSIVE count_mora(_)
count_mora(text) ==
    IF text = <<>> THEN 0
    ELSE (IF Head(text) \in SMALL_KANA /\ Head(text) \notin SOKUON THEN 0 ELSE 1)
         + count_mora(Tail(text))

\* the mutant of kata_to_hira: the katakana are moved by one code point less
kata_to_hira_off_by_one(text) ==
    [k \in 1..Len(text) |->
        IF \h30A1 <= text[k] /\ text[k] <= \h30F6 THEN text[k] - \h5F ELSE text[k]]

kata_to_hira(text) ==
    [k \in 1..Len(text) |->
        IF \h30A1 <= text[k] /\ text[k] <= \h30F6 THEN text[k] - \h60 ELSE text[k]]

\* one optional group (?:@(-?\d+))? of the F-rule pattern, tried at index k of
\* spec: the group's text (None when the group does not take part) and the
\* index after it
acon_group(spec, k) ==
    LET neg == k + 1 <= Len(spec) /\ spec[k + 1] = ch_minus
        from == k + 1 + (IF neg THEN 1 ELSE 0)
        d == DigitRun(spec, from)
    IN  IF k <= Len(spec) /\ spec[k] = ch_at /\ d >= 1
        THEN [text |-> Some(SubSeq(spec, k + 1, from + d - 1)), next |-> from + d]
        ELSE [text |-> None, next |-> k]

\* re.match(r"F([1-6])(?:@(-?\d+))?(?:@(-?\d+))?", spec) and the dict built of it
acon_match(spec) ==
    IF Len(spec) >= 2 /\ spec[1] = ch_F /\ ch_1 <= spec[2] /\ spec[2] <= \h36
    THEN LET g2 == acon_group(spec, 3)
             g3 == acon_group(spec, g2.next)
         IN  Some([type |-> <<ch_F, spec[2]>>,
                   M |-> IF g2.text # None THEN py_int(g2.text[1]) ELSE None,
                   L |-> IF g3.text # None THEN py_int(g3.text[1]) ELSE None])
    ELSE None

RECURSIVE acon_parts(_, _)
acon_parts(parts, pos_key) ==
    IF parts = <<>> THEN None
    ELSE LET part == Head(parts)
             k == IndexOf(part, ch_percent)
         IN  IF k = 0 THEN acon_parts(Tail(parts), pos_key)
             ELSE IF SubSeq(part, 1, k - 1) = pos_key
                     /\ acon_match(SubSeq(part, k + 1, Len(part))) # None
                  THEN acon_match(SubSeq(part, k + 1, Len(part)))
                  ELSE acon_parts(Tail(parts), pos_key)

parse_acon_for_pos(acon, pos_key) ==
    IF acon = <<>> \/ acon = <<ch_star>> THEN None
    ELSE acon_parts(Split(acon, ch_comma), pos_key)

-----------------------------------------------------------------------------
(* AccentEngine.compute_accent, one action for the part before the loop,   *)
(* one for each turn of the loop and one for the part after it.            *)

pos_doushi == <<\h52D5, \h8A5E>>             \* "doushi", verb
pos_keiyoushi == <<\h5F62, \h5BB9, \h8A5E>>  \* "keiyoushi", adjective
pos_meishi == <<\h540D, \h8A5E>>             \* "meishi", noun
pos_jodoushi == <<\h52A9>> \o pos_doushi     \* "jodoushi", auxiliary verb
pos_joshi == <<\h52A9, \h8A5E>>              \* "joshi", particle

\* the lookup key of the F-rule, from the POS of the first morpheme
pos_key_of(prev_pos) ==
    IF Contains(prev_pos, pos_doushi) \/ prev_pos = pos_doushi THEN pos_doushi
    ELSE IF Contains(prev_pos, pos_keiyoushi) THEN pos_keiyoushi
    ELSE pos_meishi

AccentResult(s, r, a, m, p, b) ==
    [surface |-> s, reading |-> r, accent_type |-> a, mora_count |-> m,
     pattern |-> p, breakdown |-> b]

\* lines 217-243: the empty list, the base accent of the first morpheme, its
\* aModType, and the first totals
compute_accent_head ==
    /\ pc = "call" /\ fn = "compute_accent"
    /\ LET morphemes == args.morphemes IN
       IF morphemes = <<>>
       THEN /\ ret' = AccentResult(<<>>, <<>>, 0, 0, <<>>, <<>>)
            /\ pc' = "return"
            /\ UNCHANGED <<fn, args, locals, driver, engine, parser>>
       ELSE LET first == morphemes[1]
                base == IF first.aType # <<>> /\ first.aType # <<ch_star>>
                        THEN py_int(Split(first.aType, ch_comma)[1])
                        ELSE Some(0)
            IN  IF base = None
                THEN /\ pc' = "raise"
                     /\ UNCHANGED <<fn, args, ret, locals, driver, engine, parser>>
                ELSE /\ IF first.aModType # <<>> /\ first.aModType # <<ch_star>>
                        THEN /\ current_accent' = apply_mod_type(first.aModType, base[1])
                             /\ breakdown' =
                                    <<[surface |-> first.surface, note |-> "aModType",
                                       base |-> base[1], aModType |-> first.aModType,
                                       accent |-> current_accent']>>
                        ELSE /\ current_accent' = base[1]
                             /\ breakdown' =
                                    <<[surface |-> first.surface, note |-> "base accent",
                                       accent |-> base[1]]>>
                     /\ reading' = first.reading
                     /\ current_mora' = count_mora(first.reading)
                     /\ surface' = first.surface
                     /\ next_morph' = 2
                     /\ pc' = "loop"
                     /\ UNCHANGED <<fn, args, ret, driver, engine, parser>>

\* the mutants of compute_accent_fold.  With mora_first the morpheme's own
\* mora are added before its F-rule is applied; with running_pos the lookup
\* key is taken from the morpheme folded last, not from the first one.
compute_accent_fold_variant(mora_first, running_pos) ==
    /\ pc = "loop" /\ fn = "compute_accent"
    /\ next_morph <= Len(args.morphemes)
    /\ LET morph == args.morphemes[next_morph]
           m_mora == count_mora(morph.reading)
           pos_key == pos_key_of(args.morphemes[IF running_pos THEN next_morph - 1
                                                ELSE 1].pos1)
           f_rule == parse_acon_for_pos(morph.aConType, pos_key)
           N1 == IF mora_first THEN current_mora + m_mora ELSE current_mora
       IN  /\ IF f_rule # None
              THEN /\ current_accent' =
                          apply_f_rule(f_rule[1].type, f_rule[1].M, f_rule[1].L,
                                       current_accent, N1)
                   /\ breakdown' = Append(breakdown,
                          [surface |-> morph.surface, note |-> "F-rule",
                           rule |-> f_rule[1], N1 |-> N1,
                           M1 |-> current_accent, accent |-> current_accent'])
              ELSE /\ current_accent' = current_accent
                   /\ breakdown' = Append(breakdown,
                          [surface |-> morph.surface, note |-> "no F-rule found",
                           accent |-> current_accent])
           /\ current_mora' = current_mora + m_mora
           /\ reading' = reading \o morph.reading
           /\ surface' = surface \o morph.surface
    /\ next_morph' = next_morph + 1
    /\ UNCHANGED <<fn, args, ret, pc, driver, engine, parser>>

compute_accent_fold_mora_first == compute_accent_fold_variant(TRUE, FALSE)
compute_accent_fold_running_pos == compute_accent_fold_variant(FALSE, TRUE)

\* lines 246-290: one turn of the loop over morphemes[1:]
compute_accent_fold ==
    /\ pc = "loop" /\ fn = "compute_accent"
    /\ next_morph <= Len(args.morphemes)
    /\ LET morph == args.morphemes[next_morph]
           m_mora == count_mora(morph.reading)
           pos_key == pos_key_of(args.morphemes[1].pos1)
           f_rule == parse_acon_for_pos(morph.aConType, pos_key)
       IN  /\ IF f_rule # None
              THEN /\ current_accent' =
                          apply_f_rule(f_rule[1].type, f_rule[1].M, f_rule[1].L,
                                       current_accent, current_mora)
                   /\ breakdown' = Append(breakdown,
                          [surface |-> morph.surface, note |-> "F-rule",
                           rule |-> f_rule[1], N1 |-> current_mora,
                           M1 |-> current_accent, accent |-> current_accent'])
              ELSE /\ current_accent' = current_accent
                   /\ breakdown' = Append(breakdown,
                          [surface |-> morph.surface, note |-> "no F-rule found",
                           accent |-> current_accent])
           /\ current_mora' = current_mora + m_mora
           /\ reading' = reading \o morph.reading
           /\ surface' = surface \o morph.surface
    /\ next_morph' = next_morph + 1
    /\ UNCHANGED <<fn, args, ret, pc, driver, engine, parser>>

\* lines 292-305: the pattern, the hiragana reading and the result
compute_accent_finish ==
    /\ pc = "loop" /\ fn = "compute_accent"
    /\ next_morph > Len(args.morphemes)
    /\ ret' = AccentResult(surface, kata_to_hira(reading), current_accent, current_mora,
                           accent_to_pattern(current_accent, current_mora, TRUE),
                           breakdown)
    /\ pc' = "return"
    /\ UNCHANGED <<fn, args, locals, driver, engine, parser>>

-----------------------------------------------------------------------------
(* The morpheme lists given to compute_accent: a head word and up to       *)
(* MaxAux auxiliaries.  Readings are katakana, as the tokenizer gives them. *)

Morpheme(s, r, p, atype, acon, amod) ==
    [surface |-> s, reading |-> r, pos1 |-> p,
     aType |-> atype, aConType |-> acon, aModType |-> amod]

\* one term prev_pos%F<k>... of an aConType, and two specs joined by a comma
Term(pos, spec) == pos \o <<ch_percent>> \o spec
Comma(s, t) == s \o <<ch_comma>> \o t

\* (surface, reading): mi (1 mora), tabe (2 mora), shabeQ (3 mora: a small
\* kana and a sokuon)
HeadWords ==
    {<<<<\h898B>>, <<\h30DF>>>>,
     <<<<\h98DF, \h3079>>, <<\h30BF, \h30D9>>>>,
     <<<<\h558B, \h3063>>, <<\h30B7, \h30E3, \h30D9, \h30C3>>>>}

HeadPos == {pos_doushi, pos_keiyoushi, pos_meishi}

\* "*", "0", "1", "3", "2,0" and the malformed "x"
HeadATypes ==
    {<<ch_star>>, <<ch_0>>, <<ch_1>>, <<\h33>>, <<ch_2, ch_comma, ch_0>>, <<ch_x>>}

\* "*", "M4@1", "M1@2"
HeadModTypes ==
    {<<ch_star>>, <<ch_M, ch_4, ch_at, ch_1>>, <<ch_M, ch_1, ch_at, ch_2>>}

\* a dictionary accent lies inside its word: an aType whose first alternative
\* is a number names one of the word's mora, or 0
ATypesOf(r) ==
    {atype \in HeadATypes :
        LET first == py_int(Split(atype, ch_comma)[1]) IN
        first = None \/ first[1] <= count_mora(r)}

Heads ==
    {Morpheme(w[1][1], w[1][2], p, w[2], <<ch_star>>, amod) :
        w \in {v \in HeadWords \X HeadATypes : v[2] \in ATypesOf(v[1][2])},
        p \in HeadPos, amod \in HeadModTypes}

Aux(s, r, p, acon) == Morpheme(s, r, p, <<ch_star>>, acon, <<ch_star>>)

\* ta: doushi%F2@1,keiyoushi%F4@-2
aux_ta ==
    Aux(<<\h305F>>, <<\h30BF>>, pos_jodoushi,
        Comma(Term(pos_doushi, <<ch_F, ch_2, ch_at, ch_1>>),
              Term(pos_keiyoushi, <<ch_F, ch_4, ch_at, ch_minus, ch_2>>)))
\* masu: doushi%F4@1
aux_masu ==
    Aux(<<\h307E, \h3059>>, <<\h30DE, \h30B9>>, pos_jodoushi,
        Term(pos_doushi, <<ch_F, ch_4, ch_at, ch_1>>))
\* te, a particle: doushi%F1,keiyoushi%F2@-1
aux_te ==
    Aux(<<\h3066>>, <<\h30C6>>, pos_joshi,
        Comma(Term(pos_doushi, <<ch_F, ch_1>>),
              Term(pos_keiyoushi, <<ch_F, ch_2, ch_at, ch_minus, ch_1>>)))
\* nai: doushi%F3@0,keiyoushi%F2@1
aux_nai ==
    Aux(<<\h306A, \h3044>>, <<\h30CA, \h30A4>>, pos_jodoushi,
        Comma(Term(pos_doushi, <<ch_F, \h33, ch_at, ch_0>>),
              Term(pos_keiyoushi, <<ch_F, ch_2, ch_at, ch_1>>)))
\* da: meishi%F2@1,doushi%F2@0,keiyoushi%F2@-1
aux_da ==
    Aux(<<\h3060>>, <<\h30C0>>, pos_jodoushi,
        Comma(Term(pos_meishi, <<ch_F, ch_2, ch_at, ch_1>>),
              Comma(Term(pos_doushi, <<ch_F, ch_2, ch_at, ch_0>>),
                    Term(pos_keiyoushi, <<ch_F, ch_2, ch_at, ch_minus, ch_1>>))))
\* rashii: doushi%F6@1@-1,meishi%F6@0@-1
aux_rashii ==
    Aux(<<\h3089, \h3057, \h3044>>, <<\h30E9, \h30B7, \h30A4>>, pos_jodoushi,
        Comma(Term(pos_doushi, <<ch_F, \h36, ch_at, ch_1, ch_at, ch_minus, ch_1>>),
              Term(pos_meishi, <<ch_F, \h36, ch_at, ch_0, ch_at, ch_minus, ch_1>>)))
\* reru: doushi%F5,meishi%F4@3
aux_reru ==
    Aux(<<\h308C, \h308B>>, <<\h30EC, \h30EB>>, pos_jodoushi,
        Comma(Term(pos_doushi, <<ch_F, \h35>>),
              Term(pos_meishi, <<ch_F, ch_4, ch_at, \h33>>)))
\* ka, a particle with no rule: *
aux_ka == Aux(<<\h304B>>, <<\h30AB>>, pos_joshi, <<ch_star>>)
\* an auxiliary with rule codes outside F1..F6: doushi%F7@1,meishi%F10@1,keiyoushi%F
aux_bad ==
    Aux(<<\h3088>>, <<\h30E8>>, pos_jodoushi,
        Comma(Term(pos_doushi, <<ch_F, \h37, ch_at, ch_1>>),
              Comma(Term(pos_meishi, <<ch_F, ch_1, ch_0, ch_at, ch_1>>),
                    Term(pos_keiyoushi, <<ch_F>>))))

AuxPool ==
    {aux_ta, aux_masu, aux_te, aux_nai, aux_da, aux_rashii, aux_reru, aux_ka, aux_bad}

MorphemeLists ==
    {<<>>} \cup
    {<<h>> \o auxs : h \in Heads, auxs \in UNION {[1..k -> AuxPool] : k \in 0..MaxAux}}

InitAccent ==
    /\ fn = "compute_accent"
    /\ args \in [morphemes : MorphemeLists]
    /\ ret = None
    /\ pc = "call"
    /\ NoLocals

NextAccent == compute_accent_head \/ compute_accent_fold \/ compute_accent_finish

SpecAccent == InitAccent /\ [][NextAccent]_vars

-----------------------------------------------------------------------------
(* compound.py: count_mora, ends_with_special_mora,                        *)
(* get_special_mora_at_end_count, compute_compound_accent.  Readings are   *)
(* hiragana.                                                               *)

hira_n == \h3093         \* the moraic nasal "n"
hira_sokuon == \h3063    \* the small "tsu"
long_mark == \h30FC      \* the long vowel mark
hira_a == \h3042
hira_i == \h3044
hira_u == \h3046
hira_e == \h3048
hira_o == \h304A
hira_ka == \h304B
hira_small_yo == \h3087

SPECIAL_MORA == {hira_n, hira_sokuon, long_mark}

\* the SMALL_KANA of compound.count_mora, which does not hold the sokuon
COMPOUND_SMALL_KANA ==
    {\h3041, \h3043, \h3045, \h3047, \h3049, \h3083, \h3085, \h3087, \h308E,
     \h30A1, \h30A3, \h30A5, \h30A7, \h30A9, \h30E3, \h30E5, \h30E7, \h30EE}

RECURSIVE compound_count_mora(_)
compound_count_mora(text) ==
    IF text = <<>> THEN 0
    ELSE (IF Head(text) \notin COMPOUND_SMALL_KANA THEN 1 ELSE 0)
         + compound_count_mora(Tail(text))

\* "ou", "uu", "oo", "ei", "ii", "aa"
LONG_VOWEL_ENDINGS ==
    {<<hira_o, hira_u>>, <<hira_u, hira_u>>, <<hira_o, hira_o>>,
     <<hira_e, hira_i>>, <<hira_i, hira_i>>, <<hira_a, hira_a>>}

ends_with_special_mora(text) ==
    IF text = <<>> THEN FALSE
    ELSE IF text[Len(text)] \in SPECIAL_MORA THEN TRUE
    ELSE IF Len(text) >= 2 /\ SubSeq(text, Len(text) - 1, Len(text)) \in LONG_VOWEL_ENDINGS
         THEN TRUE
    ELSE FALSE

RECURSIVE get_special_mora_at_end_count(_)
get_special_mora_at_end_count(text) ==
    IF text # <<>> /\ text[Len(text)] \in SPECIAL_MORA
    THEN 1 + get_special_mora_at_end_count(SubSeq(text, 1, Len(text) - 1))
    ELSE 0

\* the surfaces go, iro, teki, sei, ka, ka (house), sha, in, shiki, you, chuu,
\* nai, gai, jou, ka (under), kan, mae, go (after), dai, kan (feeling)
HEIBAN_SUFFIXES ==
    {<<\h8A9E>>, <<\h8272>>, <<\h7684>>, <<\h6027>>, <<\h5316>>, <<\h5BB6>>,
     <<\h8005>>, <<\h54E1>>, <<\h5F0F>>, <<\h7528>>, <<\h4E2D>>, <<\h5185>>,
     <<\h5916>>, <<\h4E0A>>, <<\h4E0B>>, <<\h9593>>, <<\h524D>>, <<\h5F8C>>,
     <<\h4EE3>>, <<\h611F>>}

\* the mutants of compute_compound_accent: the shift is not clipped at 1; an
\* odaka N2 is not treated as heiban; the suffix test follows the N2 <= 2 case
compute_compound_accent_unclipped(n1_reading, n1_accent, n2_reading, n2_accent, n2_surface) ==
    LET n1_len == compound_count_mora(n1_reading)
        n2_len == compound_count_mora(n2_reading)
        shift == get_special_mora_at_end_count(n1_reading)
    IN  IF n2_surface \in HEIBAN_SUFFIXES THEN <<0, <<"heiban_suffix">>>>
        ELSE IF n2_len <= 2
        THEN (IF ends_with_special_mora(n1_reading)
              THEN <<n1_len - shift, <<"N2<=2_special_shift_", shift>>>>
              ELSE <<n1_len, <<"N2<=2_boundary">>>>)
        ELSE IF 3 <= n2_len /\ n2_len <= 4
        THEN (IF n2_accent = 0 \/ n2_accent = n2_len
              THEN <<n1_len + 1, <<"N2=3-4_heiban/odaka->N2_initial">>>>
              ELSE <<n1_len + n2_accent, <<"N2=3-4_preserve_N2">>>>)
        ELSE IF n2_accent = 0 THEN <<0, <<"N2>=5_heiban->compound_heiban">>>>
        ELSE <<n1_len + n2_accent, <<"N2>=5_preserve_N2">>>>

compute_compound_accent_odaka_kept(n1_reading, n1_accent, n2_reading, n2_accent, n2_surface) ==
    LET n1_len == compound_count_mora(n1_reading)
        n2_len == compound_count_mora(n2_reading)
        shift == get_special_mora_at_end_count(n1_reading)
    IN  IF n2_surface \in HEIBAN_SUFFIXES THEN <<0, <<"heiban_suffix">>>>
        ELSE IF n2_len <= 2
        THEN (IF ends_with_special_mora(n1_reading)
              THEN <<Max(1, n1_len - shift), <<"N2<=2_special_shift_", shift>>>>
              ELSE <<n1_len, <<"N2<=2_boundary">>>>)
        ELSE IF 3 <= n2_len /\ n2_len <= 4
        THEN (IF n2_accent = 0
              THEN <<n1_len + 1, <<"N2=3-4_heiban/odaka->N2_initial">>>>
              ELSE <<n1_len + n2_accent, <<"N2=3-4_preserve_N2">>>>)
        ELSE IF n2_accent = 0 THEN <<0, <<"N2>=5_heiban->compound_heiban">>>>
        ELSE <<n1_len + n2_accent, <<"N2>=5_preserve_N2">>>>

compute_compound_accent_suffix_late(n1_reading, n1_accent, n2_reading, n2_accent, n2_surface) ==
    LET n1_len == compound_count_mora(n1_reading)
        n2_len == compound_count_mora(n2_reading)
        shift == get_special_mora_at_end_count(n1_reading)
    IN  IF n2_len <= 2
        THEN (IF ends_with_special_mora(n1_reading)
              THEN <<Max(1, n1_len - shift), <<"N2<=2_special_shift_", shift>>>>
              ELSE <<n1_len, <<"N2<=2_boundary">>>>)
        ELSE IF n2_surface \in HEIBAN_SUFFIXES THEN <<0, <<"heiban_suffix">>>>
        ELSE IF 3 <= n2_len /\ n2_len <= 4
        THEN (IF n2_accent = 0 \/ n2_accent = n2_len
              THEN <<n1_len + 1, <<"N2=3-4_heiban/odaka->N2_initial">>>>
              ELSE <<n1_len + n2_accent, <<"N2=3-4_preserve_N2">>>>)
        ELSE IF n2_accent = 0 THEN <<0, <<"N2>=5_heiban->compound_heiban">>>>
        ELSE <<n1_len + n2_accent, <<"N2>=5_preserve_N2">>>>

\* the pair (accent_type, rule_name); a rule name is a tuple, the shift of
\* "N2<=2_special_shift_<shift>" its second element
\* the mutant of compute_compound_accent: a preserved N2 accent is counted
\* from the end of the compound
compute_compound_accent_total_offset(n1_reading, n1_accent, n2_reading, n2_accent, n2_surface) ==
    LET n1_len == compound_count_mora(n1_reading)
        n2_len == compound_count_mora(n2_reading)
        total_len == n1_len + n2_len
    IN  IF n2_surface \in HEIBAN_SUFFIXES THEN <<0, <<"heiban_suffix">>>>
        ELSE IF n2_len <= 2
        THEN (IF ends_with_special_mora(n1_reading)
              THEN LET shift == get_special_mora_at_end_count(n1_reading)
                       accent_pos == Max(1, n1_len - shift)
                   IN  <<accent_pos, <<"N2<=2_special_shift_", shift>>>>
              ELSE <<n1_len, <<"N2<=2_boundary">>>>)
        ELSE IF 3 <= n2_len /\ n2_len <= 4
        THEN LET is_heiban == (n2_accent = 0)
                 is_odaka == (n2_accent = n2_len)
             IN  IF is_heiban \/ is_odaka
                 THEN <<n1_len + 1, <<"N2=3-4_heiban/odaka->N2_initial">>>>
                 ELSE <<total_len + n2_accent, <<"N2=3-4_preserve_N2">>>>
        ELSE IF n2_accent = 0 THEN <<0, <<"N2>=5_heiban->compound_heiban">>>>
        ELSE <<total_len + n2_accent, <<"N2>=5_preserve_N2">>>>

\* the mutant of compute_compound_accent: a heiban N1 keeps the compound
\* heiban when N2 is short
compute_compound_accent_n1_heiban(n1_reading, n1_accent, n2_reading, n2_accent, n2_surface) ==
    LET n1_len == compound_count_mora(n1_reading)
        n2_len == compound_count_mora(n2_reading)
    IN  IF n2_surface \in HEIBAN_SUFFIXES THEN <<0, <<"heiban_suffix">>>>
        ELSE IF n2_len <= 2
        THEN (IF n1_accent = 0 THEN <<0, <<"N2<=2_boundary">>>>
              ELSE IF ends_with_special_mora(n1_reading)
              THEN LET shift == get_special_mora_at_end_count(n1_reading)
                       accent_pos == Max(1, n1_len - shift)
                   IN  <<accent_pos, <<"N2<=2_special_shift_", shift>>>>
              ELSE <<n1_len, <<"N2<=2_boundary">>>>)
        ELSE IF 3 <= n2_len /\ n2_len <= 4
        THEN LET is_heiban == (n2_accent = 0)
                 is_odaka == (n2_accent = n2_len)
             IN  IF is_heiban \/ is_odaka
                 THEN <<n1_len + 1, <<"N2=3-4_heiban/odaka->N2_initial">>>>
                 ELSE <<n1_len + n2_accent, <<"N2=3-4_preserve_N2">>>>
        ELSE IF n2_accent = 0 THEN <<0, <<"N2>=5_heiban->compound_heiban">>>>
        ELSE <<n1_len + n2_accent, <<"N2>=5_preserve_N2">>>>

compute_compound_accent(n1_reading, n1_accent, n2_reading, n2_accent, n2_surface) ==
    LET n1_len == compound_count_mora(n1_reading)
        n2_len == compound_count_mora(n2_reading)
        total_len == n1_len + n2_len
    IN  IF n2_surface \in HEIBAN_SUFFIXES THEN <<0, <<"heiban_suffix">>>>
        ELSE IF n2_len <= 2
        THEN (IF ends_with_special_mora(n1_reading)
              THEN LET shift == get_special_mora_at_end_count(n1_reading)
                       accent_pos == Max(1, n1_len - shift)
                   IN  <<accent_pos, <<"N2<=2_special_shift_", shift>>>>
              ELSE <<n1_len, <<"N2<=2_boundary">>>>)
        ELSE IF 3 <= n2_len /\ n2_len <= 4
        THEN LET is_heiban == (n2_accent = 0)
                 is_odaka == (n2_accent = n2_len)
             IN  IF is_heiban \/ is_odaka
                 THEN <<n1_len + 1, <<"N2=3-4_heiban/odaka->N2_initial">>>>
                 ELSE <<n1_len + n2_accent, <<"N2=3-4_preserve_N2">>>>
        ELSE IF n2_accent = 0 THEN <<0, <<"N2>=5_heiban->compound_heiban">>>>
        ELSE <<n1_len + n2_accent, <<"N2>=5_preserve_N2">>>>

\* the readings of N1: every string of up to MaxN1Len of these kana
N1Alphabet == {hira_ka, hira_n, hira_sokuon, long_mark, hira_o, hira_u, hira_small_yo}
N1Readings == StringsUpTo(N1Alphabet, MaxN1Len)

\* the readings of N2: up to MaxN2Len plain kana, with or without a small kana
N2Readings ==
    {Rep(hira_ka, k) \o t : k \in 0..MaxN2Len, t \in {<<>>, <<hira_small_yo>>}}

\* the surfaces of N2: the default "", men (no suffix), go and teki (suffixes)
N2Surfaces == {<<>>, <<\h9762>>, <<\h8A9E>>, <<\h7684>>}

InitCompound ==
    /\ fn = "compute_compound_accent"
    /\ args \in {[n1_reading |-> r1, n1_accent |-> a1, n2_reading |-> r2,
                  n2_accent |-> a2, n2_surface |-> s2] :
                    r1 \in N1Readings, a1 \in {0, 1}, r2 \in N2Readings,
                    a2 \in 0..MaxN2Accent, s2 \in N2Surfaces}
    /\ ret = None
    /\ pc = "call"
    /\ NoLocals

call_compute_compound_accent ==
    /\ pc = "call" /\ fn = "compute_compound_accent"
    /\ ret' = compute_compound_accent(args.n1_reading, args.n1_accent,
                                      args.n2_reading, args.n2_accent, args.n2_surface)
    /\ pc' = "return"
    /\ UNCHANGED <<fn, args, locals, driver, engine, parser>>

SpecCompound == InitCompound /\ [][call_compute_compound_accent]_vars

-----------------------------------------------------------------------------
(* compound.py: compute_multi_noun_compound.  A component is the tuple     *)
(* <<surface, reading, accent>>.  The rule string "{surface1}+{surface2}:  *)
(* {rule}" is the record [n1 |-> Some(surface1), n2 |-> surface2, rule |-> *)
(* rule], and "+{surface_n}: {rule}" the same record with n1 |-> None.     *)

rule_entry(s1, s2, rule) == [n1 |-> s1, n2 |-> s2, rule |-> rule]

\* the mutant of the loop: every later step takes the first component's
\* reading as N1, not the reading accumulated so far
RECURSIVE multi_noun_loop_stale_reading(_, _, _, _, _, _)
multi_noun_loop_stale_reading(components, i, reading1, cur_accent, cur_reading, rules) ==
    IF i > Len(components) THEN <<cur_accent, cur_reading, rules>>
    ELSE LET surface_n == components[i][1]
             reading_n == components[i][2]
             accent_n == components[i][3]
             r == compute_compound_accent(reading1, cur_accent, reading_n, accent_n, surface_n)
         IN  multi_noun_loop_stale_reading(components, i + 1, reading1, r[1],
                 cur_reading \o reading_n,
                 Append(rules, rule_entry(None, surface_n, r[2])))

compute_multi_noun_compound_stale_reading(components) ==
    IF components = <<>> THEN <<0, <<>>, <<>>>>
    ELSE IF Len(components) = 1
    THEN <<components[1][3], components[1][2], <<"single_noun">>>>
    ELSE LET surface1 == components[1][1]
             reading1 == components[1][2]
             accent1 == components[1][3]
             surface2 == components[2][1]
             reading2 == components[2][2]
             accent2 == components[2][3]
             r == compute_compound_accent(reading1, accent1, reading2, accent2, surface2)
         IN  multi_noun_loop_stale_reading(components, 3, reading1, r[1], reading1 \o reading2,
                 <<rule_entry(Some(surface1), surface2, r[2])>>)

\* for i in range(2, len(components)), from the 1-based index i
RECURSIVE multi_noun_loop(_, _, _, _, _)
multi_noun_loop(components, i, cur_accent, cur_reading, rules) ==
    IF i > Len(components) THEN <<cur_accent, cur_reading, rules>>
    ELSE LET surface_n == components[i][1]
             reading_n == components[i][2]
             accent_n == components[i][3]
             r == compute_compound_accent(cur_reading, cur_accent, reading_n, accent_n, surface_n)
         IN  multi_noun_loop(components, i + 1, r[1], cur_reading \o reading_n,
                 Append(rules, rule_entry(None, surface_n, r[2])))

\* the triple (final_accent, final_reading, rules_applied)
compute_multi_noun_compound(components) ==
    IF components = <<>> THEN <<0, <<>>, <<>>>>
    ELSE IF Len(components) = 1
    THEN <<components[1][3], components[1][2], <<"single_noun">>>>
    ELSE LET surface1 == components[1][1]
             reading1 == components[1][2]
             accent1 == components[1][3]
             surface2 == components[2][1]
             reading2 == components[2][2]
             accent2 == components[2][3]
             r == compute_compound_accent(reading1, accent1, reading2, accent2, surface2)
         IN  multi_noun_loop(components, 3, r[1], reading1 \o reading2,
                 <<rule_entry(Some(surface1), surface2, r[2])>>)

\* the nouns of the module's own test run: anzen, hoshou, men, nihon, go,
\* keizai, anzenhoshou, kokunai
noun_anzen == <<<<\h5B89, \h5168>>, <<\h3042, \h3093, \h305C, \h3093>>, 0>>
noun_hoshou == <<<<\h4FDD, \h969C>>, <<\h307B, \h3057, \h3087, \h3046>>, 0>>
noun_men == <<<<\h9762>>, <<\h3081, \h3093>>, 0>>
noun_nihon == <<<<\h65E5, \h672C>>, <<\h306B, \h307B, \h3093>>, 2>>
noun_go == <<<<\h8A9E>>, <<\h3054>>, 1>>
noun_keizai == <<<<\h7D4C, \h6E08>>, <<\h3051, \h3044, \h3056, \h3044>>, 1>>
noun_anzenhoshou ==
    <<<<\h5B89, \h5168, \h4FDD, \h969C>>,
      <<\h3042, \h3093, \h305C, \h3093, \h307B, \h3057, \h3087, \h3046>>, 0>>
noun_kokunai == <<<<\h56FD, \h5185>>, <<\h3053, \h304F, \h306A, \h3044>>, 1>>

Nouns == {noun_anzen, noun_hoshou, noun_men, noun_nihon, noun_go, noun_keizai,
          noun_anzenhoshou, noun_kokunai}

\* every heiban suffix as a component of one mora (accent 1) and as one of
\* four mora (accent 0)
SuffixNouns ==
    {<<s, rd[1], rd[2]>> : s \in HEIBAN_SUFFIXES,
                           rd \in {<<noun_go[2], 1>>, <<noun_kokunai[2], 0>>}}

\* up to MaxComponents components: nouns, the last one a noun or a suffix
ComponentLists ==
    {front \o last :
        front \in UNION {[1..n -> Nouns] : n \in 0..(MaxComponents - 1)},
        last \in {<<>>} \cup {<<w>> : w \in Nouns \cup SuffixNouns}}

InitMultiNoun ==
    /\ fn = "compute_multi_noun_compound"
    /\ args \in {[components |-> c] : c \in ComponentLists}
    /\ ret = None
    /\ pc = "call"
    /\ NoLocals

call_compute_multi_noun_compound ==
    /\ pc = "call" /\ fn = "compute_multi_noun_compound"
    /\ ret' = compute_multi_noun_compound(args.components)
    /\ pc' = "return"
    /\ UNCHANGED <<fn, args, locals, driver, engine, parser>>

SpecMultiNoun == InitMultiNoun /\ [][call_compute_multi_noun_compound]_vars

-----------------------------------------------------------------------------
(* numeral_accent.py: the tables, count_mora, get_counter_category,        *)
(* get_numeral_counter_reading, compute_numeral_phrase_accent.  A dict is  *)
(* the set of its (key, value) pairs; a counter category is the one-letter *)
(* string of its Greek letter.                                             *)

dict_has(d, k) == \E e \in d : e[1] = k
\* d.get(k, default)
dict_get(d, k, default) ==
    IF dict_has(d, k) THEN (CHOOSE e \in d : e[1] = k)[2] ELSE default

\* str(n) for an integer n
RECURSIVE nat_str(_)
nat_str(n) == IF n < 10 THEN <<ch_0 + n>> ELSE nat_str(n \div 10) \o <<ch_0 + (n % 10)>>
py_str(n) == IF n < 0 THEN <<ch_minus>> \o nat_str(-n) ELSE nat_str(n)

COUNTER_CATEGORIES ==
    {<<<<\h3064>>, <<\h03B1>>>>, <<<<\h500B>>, <<\h03B1>>>>,
     <<<<\h679A>>, <<\h03B1>>>>, <<<<\h672C>>, <<\h03B2>>>>,
     <<<<\h676F>>, <<\h03B2>>>>, <<<<\h968E>>, <<\h03B3>>>>,
     <<<<\h8ED2>>, <<\h03B3>>>>, <<<<\h5E74>>, <<\h03B4>>>>,
     <<<<\h6708>>, <<\h03B4>>>>, <<<<\h9031>>, <<\h03B4>>>>,
     <<<<\h56DE>>, <<\h03B5>>>>, <<<<\h5EA6>>, <<\h03B5>>>>,
     <<<<\h5206>>, <<\h03B6>>>>, <<<<\h79D2>>, <<\h03B6>>>>,
     <<<<\h5186>>, <<\h03B7>>>>, <<<<\h6B73>>, <<\h03B8>>>>,
     <<<<\h624D>>, <<\h03B8>>>>, <<<<\h6642>>, <<\h03B9>>>>,
     <<<<\h6642, \h9593>>, <<\h03B9>>>>, <<<<\h65E5>>, <<\h03BA>>>>,
     <<<<\h65E5, \h9593>>, <<\h03BA>>>>, <<<<\h4EBA>>, <<\h03BB>>>>,
     <<<<\h540D>>, <<\h03BB>>>>, <<<<\h53F0>>, <<\h03BC>>>>,
     <<<<\h5339>>, <<\h03BC>>>>, <<<<\h982D>>, <<\h03BC>>>>,
     <<<<\h756A>>, <<\h03BD>>>>, <<<<\h53F7>>, <<\h03BD>>>>}

NUMERAL_READINGS ==
    {<<0, <<\h30BC, \h30ED>>>>, <<1, <<\h3044, \h3061>>>>, <<2, <<\h306B>>>>,
     <<3, <<\h3055, \h3093>>>>, <<4, <<\h3088, \h3093>>>>, <<5, <<\h3054>>>>,
     <<6, <<\h308D, \h304F>>>>, <<7, <<\h306A, \h306A>>>>, <<8, <<\h306F, \h3061>>>>,
     <<9, <<\h304D, \h3085, \h3046>>>>, <<10, <<\h3058, \h3085, \h3046>>>>,
     <<100, <<\h3072, \h3083, \h304F>>>>, <<1000, <<\h305B, \h3093>>>>,
     <<10000, <<\h307E, \h3093>>>>}

NUMERAL_COUNTER_OVERRIDES ==
    {<<<<1, <<\h03B4>>>>, 1>>, <<<<2, <<\h03B4>>>>, 1>>, <<<<3, <<\h03B4>>>>, 1>>,
     <<<<4, <<\h03B4>>>>, 1>>, <<<<5, <<\h03B4>>>>, 1>>, <<<<6, <<\h03B4>>>>, 1>>,
     <<<<7, <<\h03B4>>>>, 1>>, <<<<8, <<\h03B4>>>>, 1>>, <<<<9, <<\h03B4>>>>, 1>>,
     <<<<10, <<\h03B4>>>>, 1>>, <<<<1, <<\h03BB>>>>, 0>>, <<<<2, <<\h03BB>>>>, 0>>,
     <<<<3, <<\h03BB>>>>, 1>>, <<<<4, <<\h03BB>>>>, 1>>, <<<<5, <<\h03BB>>>>, 2>>,
     <<<<6, <<\h03BB>>>>, 2>>, <<<<7, <<\h03BB>>>>, 2>>, <<<<8, <<\h03BB>>>>, 2>>,
     <<<<9, <<\h03BB>>>>, 2>>, <<<<10, <<\h03BB>>>>, 2>>, <<<<1, <<\h03B2>>>>, 2>>,
     <<<<2, <<\h03B2>>>>, 2>>, <<<<3, <<\h03B2>>>>, 0>>, <<<<4, <<\h03B2>>>>, 2>>,
     <<<<5, <<\h03B2>>>>, 2>>, <<<<6, <<\h03B2>>>>, 0>>, <<<<7, <<\h03B2>>>>, 2>>,
     <<<<8, <<\h03B2>>>>, 0>>, <<<<9, <<\h03B2>>>>, 2>>, <<<<10, <<\h03B2>>>>, 0>>,
     <<<<1, <<\h03B7>>>>, 1>>, <<<<2, <<\h03B7>>>>, 1>>, <<<<3, <<\h03B7>>>>, 1>>,
     <<<<4, <<\h03B7>>>>, 1>>, <<<<5, <<\h03B7>>>>, 1>>, <<<<6, <<\h03B7>>>>, 1>>,
     <<<<7, <<\h03B7>>>>, 1>>, <<<<8, <<\h03B7>>>>, 1>>, <<<<9, <<\h03B7>>>>, 1>>,
     <<<<10, <<\h03B7>>>>, 1>>, <<<<1, <<\h03B5>>>>, 2>>, <<<<2, <<\h03B5>>>>, 1>>,
     <<<<3, <<\h03B5>>>>, 1>>, <<<<4, <<\h03B5>>>>, 1>>, <<<<5, <<\h03B5>>>>, 1>>,
     <<<<6, <<\h03B5>>>>, 0>>, <<<<7, <<\h03B5>>>>, 1>>, <<<<8, <<\h03B5>>>>, 0>>,
     <<<<9, <<\h03B5>>>>, 1>>, <<<<10, <<\h03B5>>>>, 0>>, <<<<1, <<\h03B9>>>>, 2>>,
     <<<<2, <<\h03B9>>>>, 2>>, <<<<3, <<\h03B9>>>>, 2>>, <<<<4, <<\h03B9>>>>, 2>>,
     <<<<5, <<\h03B9>>>>, 2>>, <<<<6, <<\h03B9>>>>, 2>>, <<<<7, <<\h03B9>>>>, 2>>,
     <<<<8, <<\h03B9>>>>, 2>>, <<<<9, <<\h03B9>>>>, 2>>, <<<<10, <<\h03B9>>>>, 2>>,
     <<<<1, <<\h03BA>>>>, 0>>, <<<<2, <<\h03BA>>>>, 0>>, <<<<3, <<\h03BA>>>>, 0>>,
     <<<<4, <<\h03BA>>>>, 0>>, <<<<5, <<\h03BA>>>>, 0>>, <<<<6, <<\h03BA>>>>, 0>>,
     <<<<7, <<\h03BA>>>>, 0>>, <<<<8, <<\h03BA>>>>, 0>>, <<<<9, <<\h03BA>>>>, 0>>,
     <<<<10, <<\h03BA>>>>, 0>>}

READING_ALTERNATIONS ==
    {<<<<1, <<\h672C>>>>, <<<<\h3044, \h3063>>, <<\h307D, \h3093>>>>>>,
     <<<<1, <<\h676F>>>>, <<<<\h3044, \h3063>>, <<\h3071, \h3044>>>>>>,
     <<<<1, <<\h56DE>>>>, <<<<\h3044, \h3063>>, <<\h304B, \h3044>>>>>>,
     <<<<1, <<\h968E>>>>, <<<<\h3044, \h3063>>, <<\h304B, \h3044>>>>>>,
     <<<<6, <<\h672C>>>>, <<<<\h308D, \h3063>>, <<\h307D, \h3093>>>>>>,
     <<<<6, <<\h676F>>>>, <<<<\h308D, \h3063>>, <<\h3071, \h3044>>>>>>,
     <<<<6, <<\h56DE>>>>, <<<<\h308D, \h3063>>, <<\h304B, \h3044>>>>>>,
     <<<<8, <<\h672C>>>>, <<<<\h306F, \h3063>>, <<\h307D, \h3093>>>>>>,
     <<<<8, <<\h676F>>>>, <<<<\h306F, \h3063>>, <<\h3071, \h3044>>>>>>,
     <<<<8, <<\h56DE>>>>, <<<<\h306F, \h3063>>, <<\h304B, \h3044>>>>>>,
     <<<<10, <<\h672C>>>>, <<<<\h3058, \h3085, \h3063>>, <<\h307D, \h3093>>>>>>,
     <<<<10, <<\h676F>>>>, <<<<\h3058, \h3085, \h3063>>, <<\h3071, \h3044>>>>>>,
     <<<<10, <<\h56DE>>>>, <<<<\h3058, \h3063>>, <<\h304B, \h3044>>>>>>,
     <<<<3, <<\h672C>>>>, <<<<\h3055, \h3093>>, <<\h307C, \h3093>>>>>>,
     <<<<1, <<\h4EBA>>>>, <<<<\h3072, \h3068>>, <<\h308A>>>>>>,
     <<<<2, <<\h4EBA>>>>, <<<<\h3075, \h305F>>, <<\h308A>>>>>>,
     <<<<4, <<\h4EBA>>>>, <<<<\h3088>>, <<\h306B, \h3093>>>>>>,
     <<<<1, <<\h65E5>>>>, <<<<\h3064, \h3044>>, <<\h305F, \h3061>>>>>>,
     <<<<2, <<\h65E5>>>>, <<<<\h3075, \h3064>>, <<\h304B>>>>>>,
     <<<<3, <<\h65E5>>>>, <<<<\h307F, \h3063>>, <<\h304B>>>>>>,
     <<<<4, <<\h65E5>>>>, <<<<\h3088, \h3063>>, <<\h304B>>>>>>,
     <<<<5, <<\h65E5>>>>, <<<<\h3044, \h3064>>, <<\h304B>>>>>>,
     <<<<6, <<\h65E5>>>>, <<<<\h3080, \h3044>>, <<\h304B>>>>>>,
     <<<<7, <<\h65E5>>>>, <<<<\h306A, \h306E>>, <<\h304B>>>>>>,
     <<<<8, <<\h65E5>>>>, <<<<\h3088, \h3046>>, <<\h304B>>>>>>,
     <<<<9, <<\h65E5>>>>, <<<<\h3053, \h3053, \h306E>>, <<\h304B>>>>>>,
     <<<<10, <<\h65E5>>>>, <<<<\h3068, \h304A>>, <<\h304B>>>>>>,
     <<<<14, <<\h65E5>>>>, <<<<\h3058, \h3085, \h3046, \h3088, \h3063>>, <<\h304B>>>>>>,
     <<<<20, <<\h65E5>>>>, <<<<\h306F, \h3064>>, <<\h304B>>>>>>,
     <<<<24, <<\h65E5>>>>, <<<<\h306B, \h3058, \h3085, \h3046, \h3088, \h3063>>, <<\h304B>>>>>>,
     <<<<4, <<\h6642>>>>, <<<<\h3088>>, <<\h3058>>>>>>,
     <<<<7, <<\h6642>>>>, <<<<\h3057, \h3061>>, <<\h3058>>>>>>,
     <<<<9, <<\h6642>>>>, <<<<\h304F>>, <<\h3058>>>>>>}

counter_readings ==
    {<<<<\h5E74>>, <<\h306D, \h3093>>>>, <<<<\h6708>>, <<\h304C, \h3064>>>>,
     <<<<\h65E5>>, <<\h306B, \h3061>>>>, <<<<\h6642>>, <<\h3058>>>>,
     <<<<\h5206>>, <<\h3075, \h3093>>>>, <<<<\h79D2>>, <<\h3073, \h3087, \h3046>>>>,
     <<<<\h4EBA>>, <<\h306B, \h3093>>>>, <<<<\h672C>>, <<\h307B, \h3093>>>>,
     <<<<\h56DE>>, <<\h304B, \h3044>>>>, <<<<\h5186>>, <<\h3048, \h3093>>>>,
     <<<<\h6B73>>, <<\h3055, \h3044>>>>, <<<<\h500B>>, <<\h3053>>>>,
     <<<<\h679A>>, <<\h307E, \h3044>>>>, <<<<\h53F0>>, <<\h3060, \h3044>>>>,
     <<<<\h968E>>, <<\h304B, \h3044>>>>, <<<<\h756A>>, <<\h3070, \h3093>>>>}

RECURSIVE numeral_count_mora(_)
numeral_count_mora(text) ==
    IF text = <<>> THEN 0
    ELSE (IF Head(text) \notin COMPOUND_SMALL_KANA THEN 1 ELSE 0)
         + numeral_count_mora(Tail(text))

get_counter_category(counter) == dict_get(COUNTER_CATEGORIES, counter, None)

\* the mutant of get_numeral_counter_reading: no alternation is applied
get_numeral_counter_reading_plain(numeral, counter) ==
    <<dict_get(NUMERAL_READINGS, numeral, py_str(numeral)),
      dict_get(counter_readings, counter, counter)>>

\* the pair (numeral_reading, counter_reading)
get_numeral_counter_reading(numeral, counter) ==
    IF dict_has(READING_ALTERNATIONS, <<numeral, counter>>)
    THEN dict_get(READING_ALTERNATIONS, <<numeral, counter>>, None)
    ELSE <<dict_get(NUMERAL_READINGS, numeral, py_str(numeral)),
           dict_get(counter_readings, counter, counter)>>

\* the mutant of numeral_phrase_accent: normal sandhi puts the accent on n1
\* whatever the counter's length is
numeral_phrase_accent_short_only(overrides, numeral, counter, counter_accent) ==
    LET category == get_counter_category(counter)
        rd == get_numeral_counter_reading(numeral, counter)
        full_reading == rd[1] \o rd[2]
        total_mora == numeral_count_mora(full_reading)
        num_mora == numeral_count_mora(rd[1])
        looked_up == IF dict_has(overrides, <<numeral, category>>)
                     THEN Some(dict_get(overrides, <<numeral, category>>, 0))
                     ELSE None
        override == IF looked_up = None THEN Some(0) ELSE looked_up
    IN  IF looked_up = None /\ numeral > 10
        THEN <<0, full_reading, <<"large_number_default_heiban">>>>
        ELSE IF override = Some(0)
        THEN <<num_mora, full_reading, <<"normal_sandhi_cat_", category>>>>
        ELSE IF override = Some(1)
        THEN <<0, full_reading, <<"heiban_cat_", category>>>>
        ELSE IF override = Some(2)
        THEN <<num_mora + 1, full_reading, <<"counter_initial_cat_", category>>>>
        ELSE IF override = Some(3)
        THEN <<total_mora, full_reading, <<"counter_final_cat_", category>>>>
        ELSE <<0, full_reading, <<"unknown">>>>

\* compute_numeral_phrase_accent reading the module's override table as
\* `overrides`; the triple (accent_type, reading, rule_description), the rule
\* f"normal_sandhi_cat_{category}" being the pair of its prefix and category.
\* A code looked up in the table is an integer; None is the missing entry.
numeral_phrase_accent(overrides, numeral, counter, counter_accent) ==
    LET category == get_counter_category(counter)
        rd == get_numeral_counter_reading(numeral, counter)
        num_reading == rd[1]
        counter_reading == rd[2]
        full_reading == num_reading \o counter_reading
        total_mora == numeral_count_mora(full_reading)
        num_mora == numeral_count_mora(num_reading)
        counter_mora == numeral_count_mora(counter_reading)
        looked_up == IF dict_has(overrides, <<numeral, category>>)
                     THEN Some(dict_get(overrides, <<numeral, category>>, 0))
                     ELSE None
        override == IF looked_up = None THEN Some(0) ELSE looked_up
    IN  IF looked_up = None /\ numeral > 10
        THEN <<0, full_reading, <<"large_number_default_heiban">>>>
        ELSE IF override = Some(0)
        THEN <<IF counter_mora <= 2 THEN num_mora ELSE num_mora + 1,
               full_reading, <<"normal_sandhi_cat_", category>>>>
        ELSE IF override = Some(1)
        THEN <<0, full_reading, <<"heiban_cat_", category>>>>
        ELSE IF override = Some(2)
        THEN <<num_mora + 1, full_reading, <<"counter_initial_cat_", category>>>>
        ELSE IF override = Some(3)
        THEN <<total_mora, full_reading, <<"counter_final_cat_", category>>>>
        ELSE <<0, full_reading, <<"unknown">>>>

compute_numeral_phrase_accent(numeral, counter, counter_accent) ==
    numeral_phrase_accent(NUMERAL_COUNTER_OVERRIDES, numeral, counter, counter_accent)

\* the override tables of the checked calls: the shipped one, and the shipped
\* one completed for category alpha (which it leaves out) with code 3
category_alpha == <<\h03B1>>
OverrideTables ==
    {NUMERAL_COUNTER_OVERRIDES,
     NUMERAL_COUNTER_OVERRIDES \cup {<<<<n, category_alpha>>, 3>> : n \in 1..10}}

\* the numerals -MaxNegNumeral..MaxNumeral and 100, 1000, 10000
Numerals == (-MaxNegNumeral..MaxNumeral) \cup {100, 1000, 10000}

\* every counter of COUNTER_CATEGORIES, and two counters it does not hold:
\* man and meetoru (four mora)
Counters ==
    {e[1] : e \in COUNTER_CATEGORIES}
        \cup {<<\h4E07>>, <<\h30E1, \h30FC, \h30C8, \h30EB>>}

InitNumeral ==
    /\ fn = "compute_numeral_phrase_accent"
    /\ args \in [overrides : OverrideTables, numeral : Numerals, counter : Counters,
                 counter_accent : 0..MaxCounterAccent]
    /\ ret = None
    /\ pc = "call"
    /\ NoLocals

call_compute_numeral_phrase_accent ==
    /\ pc = "call" /\ fn = "compute_numeral_phrase_accent"
    /\ ret' = numeral_phrase_accent(args.overrides, args.numeral, args.counter,
                                    args.counter_accent)
    /\ pc' = "return"
    /\ UNCHANGED <<fn, args, locals, driver, engine, parser>>

SpecNumeral == InitNumeral /\ [][call_compute_numeral_phrase_accent]_vars

-----------------------------------------------------------------------------
(* The two merging functions side by side: compute_multi_noun_compound on  *)
(* components whose accents lie inside their own readings, and             *)
(* compute_numeral_phrase_accent on every counter, the empty one and one   *)
(* of a lone small kana included.                                          *)

\* readings of 1, 2, 2, 3 and 5 mora: ka, ka-n, kyo-u, ka-ka-ka, ka x 5
MergedReadings ==
    {<<hira_ka>>, <<hira_ka, hira_n>>, <<hira_ka, hira_small_yo, hira_u>>,
     Rep(hira_ka, 3), Rep(hira_ka, 5)}

\* a component of surface s, with every accent from 0 to its own mora count
MergedNouns(s) ==
    UNION {{<<s, r, a>> : a \in 0..compound_count_mora(r)} : r \in MergedReadings}

\* up to MaxComponents components, the last one plain or a heiban suffix
MergedComponentLists ==
    {front \o last :
        front \in UNION {[1..n -> MergedNouns(noun_men[1])] : n \in 0..(MaxComponents - 1)},
        last \in {<<>>} \cup {<<w>> : w \in MergedNouns(noun_men[1]) \cup MergedNouns(noun_go[1])}}

MergedCounters == Counters \cup {<<>>, <<hira_small_yo>>}

InitMergedNoun ==
    /\ fn = "compute_multi_noun_compound"
    /\ args \in {[components |-> c] : c \in MergedComponentLists}
    /\ ret = None
    /\ pc = "call"
    /\ NoLocals

InitMergedNumeral ==
    /\ fn = "compute_numeral_phrase_accent"
    /\ args \in [overrides : {NUMERAL_COUNTER_OVERRIDES}, numeral : Numerals,
                 counter : MergedCounters, counter_accent : 0..MaxCounterAccent]
    /\ ret = None
    /\ pc = "call"
    /\ NoLocals

InitMerged == InitMergedNoun \/ InitMergedNumeral

NextMerged == call_compute_multi_noun_compound \/ call_compute_numeral_phrase_accent

SpecMerged == InitMerged /\ [][NextMerged]_vars

-----------------------------------------------------------------------------
(* numeral_accent.py: NumeralAccentEngine.process_numeral_phrase.          *)

\* str.isdigit() of one character: an ASCII digit, a fullwidth digit, or one
\* of the superscripts 1, 2, 3 (digits for isdigit, not accepted by int)
py_isdigit(c) ==
    \/ IsDigit(c)
    \/ \hFF10 <= c /\ c <= \hFF19
    \/ c \in {\hB2, \hB3, \hB9}

\* int(s) for a string of characters that are digits for isdigit: the value, or
\* None where Python raises ValueError (the empty string, a superscript)
RECURSIVE int_of_digits(_)
int_of_digits(s) ==
    IF s = <<>> \/ \E k \in 1..Len(s) : s[k] \in {\hB2, \hB3, \hB9} THEN None
    ELSE LET digit(c) == IF IsDigit(c) THEN c - ch_0 ELSE c - \hFF10
             front == SubSeq(s, 1, Len(s) - 1)
         IN  IF front = <<>> THEN Some(digit(s[1]))
             ELSE Some(10 * int_of_digits(front)[1] + digit(s[Len(s)]))

\* "".join of the surfaces of a list of morphemes
RECURSIVE join_surfaces(_)
join_surfaces(morphemes) ==
    IF morphemes = <<>> THEN <<>>
    ELSE Head(morphemes).surface \o join_surfaces(Tail(morphemes))

\* the merged morpheme, or None where the function raises ValueError (the counter's aType)
process_numeral_phrase(numeral_morphemes, counter_morpheme) ==
    LET numeral_surface == join_surfaces(numeral_morphemes)
        digits == SelectSeq(numeral_surface, py_isdigit)
        numeral == IF int_of_digits(digits) = None THEN 0 ELSE int_of_digits(digits)[1]
        counter == counter_morpheme.surface
        counter_accent_str == counter_morpheme.aType
        counter_accent == IF counter_accent_str # <<>> /\ counter_accent_str # <<ch_star>>
                          THEN py_int(Split(counter_accent_str, ch_comma)[1])
                          ELSE Some(0)
    IN  IF counter_accent = None THEN None
        ELSE LET r == compute_numeral_phrase_accent(numeral, counter, counter_accent[1])
                 merged_surface == numeral_surface \o counter
             IN  Some([surface |-> merged_surface, reading |-> r[2],
                       pos1 |-> pos_meishi, pos2 |-> <<\h6570, \h8A5E, \h53E5>>,
                       aType |-> py_str(r[1]), aConType |-> <<ch_star>>,
                       aModType |-> <<ch_star>>, lemma |-> merged_surface,
                       numeral_rule |-> r[3], numeral |-> numeral, counter |-> counter])

\* the surfaces of the numeral morphemes: "3", "1", "0", the kanji san, the
\* fullwidth "1" and the superscript "2"
NumeralSurfaces == {<<\h33>>, <<ch_1>>, <<ch_0>>, <<\h4E09>>, <<\hFF11>>, <<\hB2>>}

\* the counters hon, nin, nen and meetoru with the aTypes "*", "0", "1,0", ""
\* and the malformed "x"
CounterMorphemes ==
    {[surface |-> c, aType |-> a] :
        c \in {<<\h672C>>, <<\h4EBA>>, <<\h5E74>>, <<\h30E1, \h30FC, \h30C8, \h30EB>>},
        a \in {<<ch_star>>, <<ch_0>>, <<ch_1, ch_comma, ch_0>>, <<>>, <<ch_x>>}}

InitNumeralPhrase ==
    /\ fn = "process_numeral_phrase"
    /\ args \in {[numeral_morphemes |-> [k \in 1..Len(q) |-> [surface |-> q[k]]],
                  counter_morpheme |-> c] :
                    q \in UNION {[1..n -> NumeralSurfaces] : n \in 1..MaxNumeralMorphemes},
                    c \in CounterMorphemes}
    /\ ret = None
    /\ pc = "call"
    /\ NoLocals

call_process_numeral_phrase ==
    /\ pc = "call" /\ fn = "process_numeral_phrase"
    /\ LET r == process_numeral_phrase(args.numeral_morphemes, args.counter_morpheme) IN
       IF r = None THEN pc' = "raise" /\ ret' = ret
       ELSE pc' = "return" /\ ret' = r[1]
    /\ UNCHANGED <<fn, args, locals, driver, engine, parser>>

SpecNumeralPhrase == InitNumeralPhrase /\ [][call_process_numeral_phrase]_vars

-----------------------------------------------------------------------------
(* numeral_reading.py: DIGITS and number_to_reading, for the integers TLC  *)
(* has (below 2^31): the branch of 10^12 (cho), lines 57-62, is not taken  *)
(* by any of them and is left out.                                         *)

DIGITS ==
    {<<0, <<>>>>, <<1, <<\h3044, \h3061>>>>, <<2, <<\h306B>>>>,
     <<3, <<\h3055, \h3093>>>>, <<4, <<\h3088, \h3093>>>>, <<5, <<\h3054>>>>,
     <<6, <<\h308D, \h304F>>>>, <<7, <<\h306A, \h306A>>>>,
     <<8, <<\h306F, \h3061>>>>, <<9, <<\h304D, \h3085, \h3046>>>>}

\* the mutant of number_to_reading: a quotient of 1 at the tens keeps its ichi
RECURSIVE number_to_reading_ichijuu(_)
number_to_reading_ichijuu(n) ==
    IF n = 0 THEN <<\h30BC, \h30ED>>
    ELSE IF n < 0 THEN <<\h30DE, \h30A4, \h30CA, \h30B9>> \o number_to_reading_ichijuu(-n)
    ELSE LET oku == n \div 100000000
             r_oku == IF n >= 100000000
                      THEN (IF oku > 1 THEN number_to_reading_ichijuu(oku) ELSE <<>>) \o <<\h304A, \h304F>>
                      ELSE <<>>
             n1 == IF n >= 100000000 THEN n % 100000000 ELSE n
             man == n1 \div 10000
             r_man == IF n1 >= 10000
                      THEN (IF man > 1 THEN number_to_reading_ichijuu(man) ELSE <<>>) \o <<\h307E, \h3093>>
                      ELSE <<>>
             n2 == IF n1 >= 10000 THEN n1 % 10000 ELSE n1
             sen == n2 \div 1000
             r_sen == IF n2 >= 1000
                      THEN (IF sen > 1 THEN dict_get(DIGITS, sen, None) ELSE <<>>)
                           \o <<\h305B, \h3093>>
                      ELSE <<>>
             n3 == IF n2 >= 1000 THEN n2 % 1000 ELSE n2
             hyaku == n3 \div 100
             r_hyaku == IF n3 >= 100
                        THEN (IF hyaku > 1 THEN dict_get(DIGITS, hyaku, None) ELSE <<>>)
                             \o <<\h3072, \h3083, \h304F>>
                        ELSE <<>>
             n4 == IF n3 >= 100 THEN n3 % 100 ELSE n3
             juu == n4 \div 10
             r_juu == IF n4 >= 10
                      THEN (IF juu > 0 THEN dict_get(DIGITS, juu, None) ELSE <<>>)
                           \o <<\h3058, \h3085, \h3046>>
                      ELSE <<>>
             n5 == IF n4 >= 10 THEN n4 % 10 ELSE n4
             r_ones == IF n5 > 0 THEN dict_get(DIGITS, n5, None) ELSE <<>>
         IN  r_oku \o r_man \o r_sen \o r_hyaku \o r_juu \o r_ones

RECURSIVE number_to_reading(_)
number_to_reading(n) ==
    IF n = 0 THEN <<\h30BC, \h30ED>>
    ELSE IF n < 0 THEN <<\h30DE, \h30A4, \h30CA, \h30B9>> \o number_to_reading(-n)
    ELSE LET oku == n \div 100000000
             r_oku == IF n >= 100000000
                      THEN (IF oku > 1 THEN number_to_reading(oku) ELSE <<>>) \o <<\h304A, \h304F>>
                      ELSE <<>>
             n1 == IF n >= 100000000 THEN n % 100000000 ELSE n
             man == n1 \div 10000
             r_man == IF n1 >= 10000
                      THEN (IF man > 1 THEN number_to_reading(man) ELSE <<>>) \o <<\h307E, \h3093>>
                      ELSE <<>>
             n2 == IF n1 >= 10000 THEN n1 % 10000 ELSE n1
             sen == n2 \div 1000
             r_sen == IF n2 >= 1000
                      THEN (IF sen > 1 THEN dict_get(DIGITS, sen, None) ELSE <<>>)
                           \o <<\h305B, \h3093>>
                      ELSE <<>>
             n3 == IF n2 >= 1000 THEN n2 % 1000 ELSE n2
             hyaku == n3 \div 100
             r_hyaku == IF n3 >= 100
                        THEN (IF hyaku > 1 THEN dict_get(DIGITS, hyaku, None) ELSE <<>>)
                             \o <<\h3072, \h3083, \h304F>>
                        ELSE <<>>
             n4 == IF n3 >= 100 THEN n3 % 100 ELSE n3
             juu == n4 \div 10
             r_juu == IF n4 >= 10
                      THEN (IF juu > 1 THEN dict_get(DIGITS, juu, None) ELSE <<>>)
                           \o <<\h3058, \h3085, \h3046>>
                      ELSE <<>>
             n5 == IF n4 >= 10 THEN n4 % 10 ELSE n4
             r_ones == IF n5 > 0 THEN dict_get(DIGITS, n5, None) ELSE <<>>
         IN  r_oku \o r_man \o r_sen \o r_hyaku \o r_juu \o r_ones

\* the integers -MaxNegReading..MaxReading and some larger ones, up to oku
ReadingInputs ==
    (-MaxNegReading..MaxReading)
        \cup {9999, 10000, 10001, 12345, 60000, 100000, 110000, 1000000, 20010010,
              100000000, 123456789, 2000000000, -10000}

InitReading ==
    /\ fn = "number_to_reading"
    /\ args \in [n : ReadingInputs]
    /\ ret = None
    /\ pc = "call"
    /\ NoLocals

call_number_to_reading ==
    /\ pc = "call" /\ fn = "number_to_reading"
    /\ ret' = number_to_reading(args.n)
    /\ pc' = "return"
    /\ UNCHANGED <<fn, args, locals, driver, engine, parser>>

SpecReading == InitReading /\ [][call_number_to_reading]_vars

-----------------------------------------------------------------------------
(* Calls of _kata_to_hira on kana strings.                                 *)

\* ka, n, the small ya, the sokuon and the small a, wa and ke in hiragana and
\* katakana where they have both, and the long vowel mark
KanaAlphabet ==
    {\h304B, \h30AB, \h3093, \h30F3, \h3083, \h30E3, \h3063, \h30C3,
     \h30A1, \h30EE, \h30F6, \h30FC}

InitKana ==
    /\ fn = "_kata_to_hira"
    /\ args \in [text : StringsUpTo(KanaAlphabet, MaxKanaLen)]
    /\ ret = None
    /\ pc = "call"
    /\ NoLocals

call_kata_to_hira ==
    /\ pc = "call" /\ fn = "_kata_to_hira"
    /\ ret' = kata_to_hira(args.text)
    /\ pc' = "return"
    /\ UNCHANGED <<fn, args, locals, driver, engine, parser>>

SpecKana == InitKana /\ [][call_kata_to_hira]_vars

-----------------------------------------------------------------------------
(* engine.py: the public methods of one AccentEngine object, called on an   *)
(* engine constructed from either rules file.                               *)

Engines == {AccentEngine(d) : d \in RulesFiles}

\* the mutant of call_count_mora: the count is memoized on the engine object
call_count_mora_memo ==
    /\ pc = "call" /\ fn = "count_mora"
    /\ ret' = count_mora(args.text)
    /\ pc' = "return"
    /\ engine' = [engine EXCEPT !.verb_patterns = Append(@, <<"count_mora", "memo">>)]
    /\ UNCHANGED <<fn, args, locals, driver, parser>>

call_count_mora ==
    /\ pc = "call" /\ fn = "count_mora"
    /\ ret' = count_mora(args.text)
    /\ pc' = "return"
    /\ UNCHANGED <<fn, args, locals, driver, engine, parser>>

InitEngine ==
    /\ engine \in Engines
    /\ \/ fn = "count_mora" /\ args \in [text : StringsUpTo(KanaAlphabet, MaxKanaLen)]
       \/ fn = "accent_to_pattern"
          /\ args \in [accent_type : -MaxNegAccent..MaxAccent, mora_count : 0..MaxMora,
                       include_particle : BOOLEAN]
       \/ fn = "apply_f_rule"
          /\ args \in [f_type : FTypes, m_val : OptParams, l_val : OptParams,
                       prev_accent : 0..MaxAccent, prev_mora : 0..MaxMora]
       \/ fn = "apply_mod_type"
          /\ args \in [mod_type : ModTypeInputs, base_accent : 0..MaxBaseAccent]
       \/ fn = "compute_accent" /\ args \in [morphemes : MorphemeLists]
    /\ ret = None
    /\ pc = "call"
    /\ next_morph = 0 /\ current_accent = 0 /\ current_mora = 0
    /\ reading = <<>> /\ surface = <<>> /\ breakdown = <<>>
    /\ driver = <<>>
    /\ parser = <<>>

NextEngine ==
    \/ call_count_mora
    \/ call_accent_to_pattern
    \/ call_apply_f_rule
    \/ call_apply_mod_type
    \/ NextAccent

SpecEngine == InitEngine /\ [][NextEngine]_vars

-----------------------------------------------------------------------------
(* sentence_parser.py: SentenceParser.parse_sentence.  The tokenizer's      *)
(* output is the input: a list of nodes, each with its surface and the       *)
(* feature fields kana, pos1, pos2 and aType.  The feature fields lemma,     *)
(* cType, cForm, aConType and aModType are copied through unread by the      *)
(* parser and are left out of nodes, morphemes and words.                    *)

CONTENT_POS ==
    {<<\h52D5, \h8A5E>>, <<\h540D, \h8A5E>>, <<\h5F62, \h5BB9, \h8A5E>>,
     <<\h526F, \h8A5E>>, <<\h4EE3, \h540D, \h8A5E>>}
SKIP_POS ==
    {<<\h52A9, \h8A5E>>, <<\h52A9, \h52D5, \h8A5E>>, <<\h88DC, \h52A9, \h8A18, \h53F7>>,
     <<\h7A7A, \h767D>>, <<\h8A18, \h53F7>>}
NUMERAL_NOUN_TYPES == {<<\h6570, \h8A5E>>}
COUNTER_NOUN_TYPES == {<<\h52A9, \h6570, \h8A5E>>}
NOUN_SUFFIX_POS2 == {<<\h540D, \h8A5E, \h7684>>}

ParsedWord(s, r, p1, p2, atype, content, morphemes, is_compound, rules) ==
    [surface |-> s, reading |-> r, pos1 |-> p1, pos2 |-> p2, aType |-> atype,
     is_content_word |-> content, morphemes |-> morphemes,
     is_compound |-> is_compound, compound_rules |-> rules]

_is_content_word(p1, p2) ==
    IF p1 \in SKIP_POS THEN FALSE
    ELSE IF p2 \in NUMERAL_NOUN_TYPES \/ p2 \in COUNTER_NOUN_TYPES THEN TRUE
    ELSE p1 \in CONTENT_POS

\* lines 120-131 (and 158-169, 197-208): the morpheme dict of a node
morpheme_of(node) ==
    [surface |-> node.surface,
     reading |-> IF node.kana # <<>> THEN node.kana ELSE node.surface,
     pos1 |-> node.pos1, pos2 |-> node.pos2, aType |-> node.aType]

\* compound.py, CompoundAccentEngine.process_noun_sequence for two or more
\* nouns: the merged morpheme's aType and _compound_rules, or None where int
\* raises ValueError on a noun's aType
compound_process_noun_sequence(nouns) ==
    LET atype(m) == IF m.aType # <<>> /\ m.aType # <<ch_star>>
                    THEN py_int(Split(m.aType, ch_comma)[1]) ELSE Some(0)
    IN  IF \E k \in 1..Len(nouns) : atype(nouns[k]) = None THEN None
        ELSE LET components == [k \in 1..Len(nouns) |->
                     <<nouns[k].surface, kata_to_hira(nouns[k].reading),
                       atype(nouns[k])[1]>>]
                 merged(r) == [aType |-> py_str(r[1]), compound_rules |-> r[3]]
             IN  Some(merged(compute_multi_noun_compound(components)))

\* the mutant of _process_noun_sequence: a run of two or more morphemes goes
\* to the compound engine before the numeral engine is considered
_process_noun_sequence_compound_first(morphemes) ==
    LET isdigit(s) == s # <<>> /\ \A k \in 1..Len(s) : py_isdigit(s[k])
        converted(s, r) == IF int_of_digits(s) = None THEN r
                           ELSE number_to_reading(int_of_digits(s)[1])
        reading_part(m) ==
            LET r == kata_to_hira(m.reading) IN
            IF isdigit(m.surface) THEN converted(m.surface, r)
            ELSE IF isdigit(r) THEN converted(r, r)
            ELSE r
        \* "".join(reading_parts)
        join(ms) == join_surfaces([k \in 1..Len(ms) |-> [surface |-> reading_part(ms[k])]])
        is_numeral(m) == m.pos2 \in NUMERAL_NOUN_TYPES
        is_counter(m) == m.pos2 \in COUNTER_NOUN_TYPES
        has_numeral == \E k \in 1..Len(morphemes) : is_numeral(morphemes[k])
        has_counter == \E k \in 1..Len(morphemes) : is_counter(morphemes[k])
        \* lines 304-309: computed_accent and compound_rules of a numeral phrase
        numeral_phrase(merged) ==
            IF merged = None THEN None
            ELSE Some(<<merged[1].aType, <<<<"numeral", merged[1].numeral_rule>>>>>>)
        \* lines 313-316: computed_accent and compound_rules of a compound
        compound(merged) ==
            IF merged = None THEN None
            ELSE Some(<<merged[1].aType, merged[1].compound_rules>>)
        \* lines 323-343: the word of a computed_accent and its compound_rules
        word(accent, rules) ==
            LET first_option == IF accent # <<>> /\ Contains(accent, <<ch_comma>>)
                                THEN Split(accent, ch_comma)[1] ELSE accent
            IN  ParsedWord(join_surfaces(morphemes), join(morphemes),
                    morphemes[1].pos1,
                    IF Len(morphemes) > 1 THEN <<\h8907, \h5408>> ELSE morphemes[1].pos2,
                    IF first_option # <<>> THEN first_option ELSE <<ch_0>>,
                    TRUE, morphemes, Len(morphemes) > 1, rules)
        finish(computed) ==
            IF computed = None THEN None
            ELSE Some(word(computed[1][1], computed[1][2]))
    IN  finish(IF Len(morphemes) > 1
               THEN compound(compound_process_noun_sequence(morphemes))
               ELSE IF has_numeral /\ has_counter
               THEN numeral_phrase(process_numeral_phrase(
                        SelectSeq(morphemes, is_numeral),
                        SelectSeq(morphemes, is_counter)[1]))
               ELSE Some(<<morphemes[1].aType, <<>>>>))

\* the word of a run of noun-like morphemes, or None where an accent engine
\* raises
_process_noun_sequence(morphemes) ==
    LET isdigit(s) == s # <<>> /\ \A k \in 1..Len(s) : py_isdigit(s[k])
        converted(s, r) == IF int_of_digits(s) = None THEN r
                           ELSE number_to_reading(int_of_digits(s)[1])
        reading_part(m) ==
            LET r == kata_to_hira(m.reading) IN
            IF isdigit(m.surface) THEN converted(m.surface, r)
            ELSE IF isdigit(r) THEN converted(r, r)
            ELSE r
        \* "".join(reading_parts)
        join(ms) == join_surfaces([k \in 1..Len(ms) |-> [surface |-> reading_part(ms[k])]])
        is_numeral(m) == m.pos2 \in NUMERAL_NOUN_TYPES
        is_counter(m) == m.pos2 \in COUNTER_NOUN_TYPES
        has_numeral == \E k \in 1..Len(morphemes) : is_numeral(morphemes[k])
        has_counter == \E k \in 1..Len(morphemes) : is_counter(morphemes[k])
        \* lines 304-309: computed_accent and compound_rules of a numeral phrase
        numeral_phrase(merged) ==
            IF merged = None THEN None
            ELSE Some(<<merged[1].aType, <<<<"numeral", merged[1].numeral_rule>>>>>>)
        \* lines 313-316: computed_accent and compound_rules of a compound
        compound(merged) ==
            IF merged = None THEN None
            ELSE Some(<<merged[1].aType, merged[1].compound_rules>>)
        \* lines 323-343: the word of a computed_accent and its compound_rules
        word(accent, rules) ==
            LET first_option == IF accent # <<>> /\ Contains(accent, <<ch_comma>>)
                                THEN Split(accent, ch_comma)[1] ELSE accent
            IN  ParsedWord(join_surfaces(morphemes), join(morphemes),
                    morphemes[1].pos1,
                    IF Len(morphemes) > 1 THEN <<\h8907, \h5408>> ELSE morphemes[1].pos2,
                    IF first_option # <<>> THEN first_option ELSE <<ch_0>>,
                    TRUE, morphemes, Len(morphemes) > 1, rules)
        finish(computed) ==
            IF computed = None THEN None
            ELSE Some(word(computed[1][1], computed[1][2]))
    IN  finish(IF has_numeral /\ has_counter
               THEN numeral_phrase(process_numeral_phrase(
                        SelectSeq(morphemes, is_numeral),
                        SelectSeq(morphemes, is_counter)[1]))
               ELSE IF Len(morphemes) > 1
               THEN compound(compound_process_noun_sequence(morphemes))
               ELSE Some(<<morphemes[1].aType, <<>>>>))

\* the mutant of run_end: the run takes at most one more node
run_end_one(nodes, j, noun_run) ==
    LET next_pos1 == nodes[j].pos1
        next_pos2 == nodes[j].pos2
        is_noun_like == \/ next_pos1 = <<\h540D, \h8A5E>>
                        \/ next_pos2 \in NUMERAL_NOUN_TYPES
                        \/ next_pos2 \in COUNTER_NOUN_TYPES
                        \/ next_pos1 = <<\h63A5, \h5C3E, \h8F9E>>
                           /\ next_pos2 \in NOUN_SUFFIX_POS2
        is_auxiliary == \/ next_pos1 = <<\h52A9, \h52D5, \h8A5E>>
                        \/ next_pos1 = <<\h52A9, \h8A5E>>
                           /\ next_pos2 = <<\h63A5, \h7D9A, \h52A9, \h8A5E>>
    IN  IF j <= Len(nodes) /\ (IF noun_run THEN is_noun_like ELSE is_auxiliary)
        THEN j + 1
        ELSE j

\* lines 143-173 and 189-215: the index after the run of nodes that starts at
\* j and attaches to a noun (noun_run) or to a verb or adjective
RECURSIVE run_end(_, _, _)
run_end(nodes, j, noun_run) ==
    LET next_pos1 == nodes[j].pos1
        next_pos2 == nodes[j].pos2
        is_noun_like == \/ next_pos1 = <<\h540D, \h8A5E>>
                        \/ next_pos2 \in NUMERAL_NOUN_TYPES
                        \/ next_pos2 \in COUNTER_NOUN_TYPES
                        \/ next_pos1 = <<\h63A5, \h5C3E, \h8F9E>>
                           /\ next_pos2 \in NOUN_SUFFIX_POS2
        is_auxiliary == \/ next_pos1 = <<\h52A9, \h52D5, \h8A5E>>
                        \/ next_pos1 = <<\h52A9, \h8A5E>>
                           /\ next_pos2 = <<\h63A5, \h7D9A, \h52A9, \h8A5E>>
    IN  IF j <= Len(nodes) /\ (IF noun_run THEN is_noun_like ELSE is_auxiliary)
        THEN run_end(nodes, j + 1, noun_run)
        ELSE j

\* the mutant of parse_word_at: a regular word leaves i where it is
parse_word_at_stay(nodes, i) ==
    LET node == nodes[i]
        pos1 == node.pos1
        pos2 == node.pos2
        reading_of(n) == IF n.kana # <<>> THEN kata_to_hira(n.kana) ELSE n.surface
        \* compound_reading, built up as the run is collected
        join(ns) == join_surfaces([k \in 1..Len(ns) |-> [surface |-> reading_of(ns[k])]])
        morphemes(j) == [k \in 1..(j - i) |-> morpheme_of(nodes[i + k - 1])]
    IN  IF \/ pos1 \in {<<\h540D, \h8A5E>>, <<\h4EE3, \h540D, \h8A5E>>}
           \/ pos2 \in NUMERAL_NOUN_TYPES
           \/ pos2 \in COUNTER_NOUN_TYPES
        THEN LET j == run_end(nodes, i + 1, TRUE) IN
             [word |-> _process_noun_sequence(morphemes(j)), next |-> j]
        ELSE IF pos1 \in {<<\h52D5, \h8A5E>>, <<\h5F62, \h5BB9, \h8A5E>>}
        THEN LET j == run_end(nodes, i + 1, FALSE) IN
             [word |-> Some(ParsedWord(join_surfaces(morphemes(j)),
                                join(SubSeq(nodes, i, j - 1)), pos1, pos2, node.aType,
                                TRUE, morphemes(j), FALSE, <<>>)),
              next |-> j]
        ELSE [word |-> Some(ParsedWord(node.surface, reading_of(node), pos1, pos2,
                                node.aType, _is_content_word(pos1, pos2),
                                <<morpheme_of(node)>>, FALSE, <<>>)),
              next |-> i]

\* one pass of the while loop of lines 101-251 at node i: the word appended
\* (None where _process_noun_sequence raises) and the next value of i
parse_word_at(nodes, i) ==
    LET node == nodes[i]
        pos1 == node.pos1
        pos2 == node.pos2
        reading_of(n) == IF n.kana # <<>> THEN kata_to_hira(n.kana) ELSE n.surface
        \* compound_reading, built up as the run is collected
        join(ns) == join_surfaces([k \in 1..Len(ns) |-> [surface |-> reading_of(ns[k])]])
        morphemes(j) == [k \in 1..(j - i) |-> morpheme_of(nodes[i + k - 1])]
    IN  IF \/ pos1 \in {<<\h540D, \h8A5E>>, <<\h4EE3, \h540D, \h8A5E>>}
           \/ pos2 \in NUMERAL_NOUN_TYPES
           \/ pos2 \in COUNTER_NOUN_TYPES
        THEN LET j == run_end(nodes, i + 1, TRUE) IN
             [word |-> _process_noun_sequence(morphemes(j)), next |-> j]
        ELSE IF pos1 \in {<<\h52D5, \h8A5E>>, <<\h5F62, \h5BB9, \h8A5E>>}
        THEN LET j == run_end(nodes, i + 1, FALSE) IN
             [word |-> Some(ParsedWord(join_surfaces(morphemes(j)),
                                join(SubSeq(nodes, i, j - 1)), pos1, pos2, node.aType,
                                TRUE, morphemes(j), FALSE, <<>>)),
              next |-> j]
        ELSE [word |-> Some(ParsedWord(node.surface, reading_of(node), pos1, pos2,
                                node.aType, _is_content_word(pos1, pos2),
                                <<morpheme_of(node)>>, FALSE, <<>>)),
              next |-> i + 1]

\* the mutant of parse_sentence_from: after a word the loop resumes one node
\* too far
RECURSIVE parse_sentence_from_skip(_, _, _)
parse_sentence_from_skip(nodes, i, words) ==
    IF i > Len(nodes) THEN Some(words)
    ELSE LET continue(r) ==
                 IF r.word = None THEN None
                 ELSE parse_sentence_from_skip(nodes, r.next + 1, Append(words, r.word[1]))
         IN  continue(parse_word_at(nodes, i))

\* the while loop of lines 101-251: the list words, or None where a pass raises
RECURSIVE parse_sentence_from(_, _, _)
parse_sentence_from(nodes, i, words) ==
    IF i > Len(nodes) THEN Some(words)
    ELSE LET continue(r) ==
                 IF r.word = None THEN None
                 ELSE parse_sentence_from(nodes, r.next, Append(words, r.word[1]))
         IN  continue(parse_word_at(nodes, i))

\* the ParsedSentence, or None where the parse raises; the sentence is the
\* text the nodes' surfaces spell
parse_sentence(nodes) ==
    LET sentence(words) ==
            IF words = None THEN None
            ELSE Some([original |-> join_surfaces(nodes), words |-> words[1]])
    IN  sentence(parse_sentence_from(nodes, 1, <<>>))

\* ParsedSentence.content_words
content_words(sentence) ==
    SelectSeq(sentence.words, LAMBDA w : w.is_content_word)

Node(s, kana, p1, p2, atype) ==
    [surface |-> s, kana |-> kana, pos1 |-> p1, pos2 |-> p2, aType |-> atype]

\* the nodes: the nouns nihon ("2"), go ("1") and hon with the malformed aType
\* "x"; the numeral "3"; the counter hon tagged as a noun and as a suffix,
\* and the counter nin; the
\* verb tabe; the auxiliary ta; the particles te and wa; the full stop, which
\* has no kana; the symbol for zero tagged as a numeral; the pronoun kare
Nodes ==
    {Node(<<\h65E5, \h672C>>, <<\h30CB, \h30DB, \h30F3>>, <<\h540D, \h8A5E>>,
          <<\h666E, \h901A, \h540D, \h8A5E>>, <<ch_2>>),
     Node(<<\h8A9E>>, <<\h30B4>>, <<\h540D, \h8A5E>>,
          <<\h666E, \h901A, \h540D, \h8A5E>>, <<ch_1>>),
     Node(<<\h672C>>, <<\h30DB, \h30F3>>, <<\h540D, \h8A5E>>,
          <<\h666E, \h901A, \h540D, \h8A5E>>, <<ch_x>>),
     Node(<<\h33>>, <<\h30B5, \h30F3>>, <<\h540D, \h8A5E>>, <<\h6570, \h8A5E>>,
          <<ch_0>>),
     Node(<<\h672C>>, <<\h30DB, \h30F3>>, <<\h540D, \h8A5E>>, <<\h52A9, \h6570, \h8A5E>>,
          <<ch_1>>),
     Node(<<\h4EBA>>, <<\h30CB, \h30F3>>, <<\h540D, \h8A5E>>, <<\h52A9, \h6570, \h8A5E>>,
          <<ch_1>>),
     Node(<<\h672C>>, <<\h30DB, \h30F3>>, <<\h63A5, \h5C3E, \h8F9E>>,
          <<\h540D, \h8A5E, \h7684>>, <<ch_star>>),
     Node(<<\h98DF, \h3079>>, <<\h30BF, \h30D9>>, <<\h52D5, \h8A5E>>, <<\h4E00, \h822C>>,
          <<ch_2>>),
     Node(<<\h305F>>, <<\h30BF>>, <<\h52A9, \h52D5, \h8A5E>>, <<>>, <<ch_star>>),
     Node(<<\h3066>>, <<\h30C6>>, <<\h52A9, \h8A5E>>, <<\h63A5, \h7D9A, \h52A9, \h8A5E>>,
          <<ch_star>>),
     Node(<<\h306F>>, <<\h30CF>>, <<\h52A9, \h8A5E>>, <<\h4FC2, \h52A9, \h8A5E>>,
          <<ch_star>>),
     Node(<<\h3002>>, <<>>, <<\h88DC, \h52A9, \h8A18, \h53F7>>, <<\h53E5, \h70B9>>,
          <<ch_star>>),
     Node(<<\h3007>>, <<\h30BC, \h30ED>>, <<\h8A18, \h53F7>>, <<\h6570, \h8A5E>>,
          <<ch_star>>),
     Node(<<\h5F7C>>, <<\h30AB, \h30EC>>, <<\h4EE3, \h540D, \h8A5E>>, <<>>, <<ch_1>>)}

NodeLists == UNION {[1..n -> Nodes] : n \in 0..MaxNodes}

InitParser ==
    /\ fn = "parse_sentence"
    /\ args \in [nodes : NodeLists]
    /\ ret = None
    /\ pc = "call"
    /\ NoLocals

call_parse_sentence ==
    /\ pc = "call" /\ fn = "parse_sentence"
    /\ LET outcome(r) == IF r = None THEN pc' = "raise" /\ ret' = ret
                         ELSE pc' = "return" /\ ret' = r[1]
       IN  outcome(parse_sentence(args.nodes))
    /\ UNCHANGED <<fn, args, locals, driver, engine, parser>>

SpecParser == InitParser /\ [][call_parse_sentence]_vars

-----------------------------------------------------------------------------
(* sentence_parser.py: the while loop of parse_sentence, one pass at a     *)
(* time.  parser holds i (1-based: the code's i + 1) and words.            *)

\* line 137: the node opens a noun-like sequence
opens_noun_run(node) ==
    \/ node.pos1 \in {<<\h540D, \h8A5E>>, <<\h4EE3, \h540D, \h8A5E>>}
    \/ node.pos2 \in NUMERAL_NOUN_TYPES
    \/ node.pos2 \in COUNTER_NOUN_TYPES

\* line 181: the node is a verb or an adjective
opens_verb_run(node) ==
    node.pos1 \in {<<\h52D5, \h8A5E>>, <<\h5F62, \h5BB9, \h8A5E>>}

\* the nodes of the scanned streams: nihon, the three hon, tabe, ta and wa
ScanNodes ==
    {n \in Nodes : n.surface \in {<<\h65E5, \h672C>>, <<\h672C>>, <<\h98DF, \h3079>>,
                                  <<\h305F>>, <<\h306F>>}}

ScanNodeLists == UNION {[1..n -> ScanNodes] : n \in 0..MaxScanNodes}

\* the passes of the loop at the nodes i, i + 1, ... of a stream
RECURSIVE passes_from(_, _)
passes_from(nodes, i) ==
    IF i > Len(nodes) THEN <<>>
    ELSE <<parse_word_at(nodes, i)>> \o passes_from(nodes, i + 1)

\* parse_word_at on every scanned stream and every index of it: the pairs
\* (nodes, passes)
Passes == {<<nodes, passes_from(nodes, 1)>> : nodes \in ScanNodeLists}

\* the pass of the loop at node i of nodes
pass_at(nodes, i) == (CHOOSE p \in Passes : p[1] = nodes)[2][i]

\* lines 101-102: nodes = list(self.tagger(sentence)); i = 0
InitScan ==
    /\ fn = "parse_sentence"
    /\ args \in [nodes : ScanNodeLists]
    /\ ret = None
    /\ pc = "loop"
    /\ next_morph = 0 /\ current_accent = 0 /\ current_mora = 0
    /\ reading = <<>> /\ surface = <<>> /\ breakdown = <<>>
    /\ driver = <<>>
    /\ engine = AccentEngine(CHOOSE d \in RulesFiles : d.suffix_rules # <<>>)
    /\ parser = [i |-> 1, words |-> <<>>]

\* the end of a pass: words.append(word) and the new i, or the exception of
\* _process_noun_sequence leaving parse_sentence
parse_sentence_pass(r) ==
    IF r.word = None
    THEN pc' = "raise" /\ parser' = parser
    ELSE pc' = "loop"
         /\ parser' = [i |-> r.next, words |-> Append(parser.words, r.word[1])]

\* lines 137-178: a noun-like sequence is collected and processed
parse_sentence_noun_run ==
    /\ fn = "parse_sentence" /\ pc = "loop"
    /\ parser.i <= Len(args.nodes)
    /\ opens_noun_run(args.nodes[parser.i])
    /\ parse_sentence_pass(pass_at(args.nodes, parser.i))
    /\ UNCHANGED <<fn, args, ret, locals, driver, engine>>

\* lines 181-232: a verb or adjective collects its auxiliaries
parse_sentence_verb_run ==
    /\ fn = "parse_sentence" /\ pc = "loop"
    /\ parser.i <= Len(args.nodes)
    /\ ~opens_noun_run(args.nodes[parser.i])
    /\ opens_verb_run(args.nodes[parser.i])
    /\ parse_sentence_pass(pass_at(args.nodes, parser.i))
    /\ UNCHANGED <<fn, args, ret, locals, driver, engine>>

\* lines 235-251: a regular word
parse_sentence_regular_word ==
    /\ fn = "parse_sentence" /\ pc = "loop"
    /\ parser.i <= Len(args.nodes)
    /\ ~opens_noun_run(args.nodes[parser.i])
    /\ ~opens_verb_run(args.nodes[parser.i])
    /\ parse_sentence_pass(pass_at(args.nodes, parser.i))
    /\ UNCHANGED <<fn, args, ret, locals, driver, engine>>

\* lines 104, 253: the loop is left, the ParsedSentence is returned
parse_sentence_return ==
    /\ fn = "parse_sentence" /\ pc = "loop"
    /\ parser.i > Len(args.nodes)
    /\ ret' = [original |-> join_surfaces(args.nodes), words |-> parser.words]
    /\ pc' = "return"
    /\ UNCHANGED <<fn, args, locals, driver, engine, parser>>

NextScan ==
    \/ parse_sentence_noun_run
    \/ parse_sentence_verb_run
    \/ parse_sentence_regular_word
    \/ parse_sentence_return

\* the interpreter keeps running the loop while a pass is possible
SpecScan == InitScan /\ [][NextScan]_vars /\ WF_vars(NextScan)

-----------------------------------------------------------------------------
(* anki_generator.py: AnkiGenerator.process_sentences and process_sentence. *)
(* A sentence is given by the content words the parser finds in it; a word  *)
(* is a ParsedWord.  The back of a card is the list annotated_words handed   *)
(* to the formatter; the conjugation drills, which only add to the back, are *)
(* left out.  compute_accent runs as its own steps between the call and the  *)
(* return of a simple word.                                                  *)

\* tabeta: tabe (aType "2") and the auxiliary ta
word_tabeta ==
    ParsedWord(<<\h98DF, \h3079, \h305F>>, <<\h305F, \h3079, \h305F>>,
        pos_doushi, <<\h4E00, \h822C>>, <<ch_2>>, TRUE,
        <<Morpheme(<<\h98DF, \h3079>>, <<\h30BF, \h30D9>>, pos_doushi, <<ch_2>>,
                   <<ch_star>>, <<ch_star>>), aux_ta>>, FALSE, <<>>)
\* hon, its aType the malformed "x"
word_hon_bad ==
    ParsedWord(<<\h672C>>, <<\h307B, \h3093>>,
        pos_meishi, <<\h666E, \h901A, \h540D, \h8A5E>>, <<ch_x>>, TRUE,
        <<Morpheme(<<\h672C>>, <<\h30DB, \h30F3>>, pos_meishi, <<ch_x>>,
                   <<ch_star>>, <<ch_star>>)>>, FALSE, <<>>)
\* nihongo, a compound with the computed aType "0"
word_nihongo ==
    ParsedWord(noun_nihon[1] \o noun_go[1], noun_nihon[2] \o noun_go[2],
        pos_meishi, <<\h8907, \h5408>>, <<ch_0>>, TRUE,
        <<Morpheme(noun_nihon[1], <<\h30CB, \h30DB, \h30F3>>, pos_meishi, <<ch_2>>,
                   <<ch_star>>, <<ch_star>>),
          Morpheme(noun_go[1], <<\h30B4>>, pos_meishi, <<ch_1>>,
                   <<ch_star>>, <<ch_star>>)>>, TRUE, <<>>)

ContentWords == {word_tabeta, word_hon_bad, word_nihongo}
Sentences == UNION {[1..n -> ContentWords] : n \in 0..MaxWords}
SentenceLists == UNION {[1..n -> Sentences] : n \in 0..MaxSentences}

AnkiCard(front, back) == [front |-> front, back |-> back, tags |-> <<"pitch_accent">>]

InitDriver ==
    /\ fn = "process_sentences"
    /\ args \in [sentences : SentenceLists]
    /\ ret = None
    /\ pc = "call"
    /\ next_morph = 0 /\ current_accent = 0 /\ current_mora = 0
    /\ reading = <<>> /\ surface = <<>> /\ breakdown = <<>>
    /\ driver = [sentences |-> args.sentences, i |-> 1, w |-> 1,
                 annotated_words |-> <<>>, cards |-> <<>>, pc |-> "sentences"]
    /\ engine = AccentEngine(CHOOSE d \in RulesFiles : d.suffix_rules # <<>>)
    /\ parser = <<>>

\* lines 306-311: the next sentence of the loop enters process_sentence
process_sentences_next ==
    /\ fn = "process_sentences" /\ driver.pc = "sentences"
    /\ driver.i <= Len(driver.sentences)
    /\ driver' = [driver EXCEPT !.w = 1, !.annotated_words = <<>>, !.pc = "words"]
    /\ UNCHANGED <<fn, args, ret, pc, locals, engine, parser>>

\* lines 313-314: an exception of process_sentence is caught and printed; no
\* card is appended
except_Exception(d) ==
    [d EXCEPT !.i = d.i + 1, !.w = 1, !.annotated_words = <<>>, !.pc = "sentences"]

\* lines 236-240, 248-253: a compound word takes the parser's reading and accent
process_sentence_compound_word ==
    /\ fn = "process_sentences" /\ driver.pc = "words"
    /\ driver.w <= Len(driver.sentences[driver.i])
    /\ LET word == driver.sentences[driver.i][driver.w]
           accent_type == IF word.aType # <<>> /\ word.aType # <<ch_star>>
                          THEN py_int(word.aType) ELSE Some(0)
       IN  /\ word.is_compound
           /\ IF accent_type = None
              THEN driver' = except_Exception(driver)
              ELSE LET mora_count == count_mora(word.reading)
                       pattern == accent_to_pattern(accent_type[1], mora_count, TRUE)
                   IN  driver' = [driver EXCEPT
                           !.annotated_words = Append(@,
                               <<word.surface, word.reading, accent_type[1], pattern>>),
                           !.w = @ + 1]
    /\ UNCHANGED <<fn, args, ret, pc, locals, engine, parser>>

\* line 243: a simple word calls compute_accent on its morphemes
process_sentence_simple_word ==
    /\ fn = "process_sentences" /\ driver.pc = "words"
    /\ driver.w <= Len(driver.sentences[driver.i])
    /\ LET word == driver.sentences[driver.i][driver.w] IN
       /\ ~word.is_compound
       /\ fn' = "compute_accent"
       /\ args' = [morphemes |-> word.morphemes]
    /\ pc' = "call"
    /\ driver' = [driver EXCEPT !.pc = "compute_accent"]
    /\ UNCHANGED <<ret, locals, engine, parser>>

\* lines 244-253: compute_accent has returned, the word is annotated
process_sentence_annotate ==
    /\ fn = "compute_accent" /\ driver # <<>> /\ pc = "return"
    /\ LET word == driver.sentences[driver.i][driver.w] IN
       driver' = [driver EXCEPT
           !.annotated_words = Append(@,
               <<word.surface, ret.reading, ret.accent_type, ret.pattern>>),
           !.w = @ + 1, !.pc = "words"]
    /\ fn' = "process_sentences"
    /\ args' = [sentences |-> driver.sentences]
    /\ pc' = "call"
    /\ ret' = None
    /\ next_morph' = 0 /\ current_accent' = 0 /\ current_mora' = 0
    /\ reading' = <<>> /\ surface' = <<>> /\ breakdown' = <<>>
    /\ UNCHANGED <<engine, parser>>

\* compute_accent has raised: nothing in process_sentence catches it, it
\* leaves process_sentence and reaches the except clause of process_sentences
process_sentence_raise ==
    /\ fn = "compute_accent" /\ driver # <<>> /\ pc = "raise"
    /\ driver' = except_Exception(driver)
    /\ fn' = "process_sentences"
    /\ args' = [sentences |-> driver.sentences]
    /\ pc' = "call"
    /\ ret' = None
    /\ next_morph' = 0 /\ current_accent' = 0 /\ current_mora' = 0
    /\ reading' = <<>> /\ surface' = <<>> /\ breakdown' = <<>>
    /\ UNCHANGED <<engine, parser>>

\* lines 284-290, 312: the card of the sentence is appended
process_sentence_return ==
    /\ fn = "process_sentences" /\ driver.pc = "words"
    /\ driver.w > Len(driver.sentences[driver.i])
    /\ driver' = [driver EXCEPT
           !.cards = Append(@, AnkiCard(driver.sentences[driver.i], driver.annotated_words)),
           !.i = @ + 1, !.w = 1, !.annotated_words = <<>>, !.pc = "sentences"]
    /\ UNCHANGED <<fn, args, ret, pc, locals, engine, parser>>

\* line 319: return cards
process_sentences_return ==
    /\ fn = "process_sentences" /\ driver.pc = "sentences"
    /\ driver.i > Len(driver.sentences)
    /\ ret' = driver.cards
    /\ pc' = "return"
    /\ driver' = [driver EXCEPT !.pc = "done"]
    /\ UNCHANGED <<fn, args, locals, engine, parser>>

NextDriver ==
    \/ process_sentences_next
    \/ process_sentence_compound_word
    \/ process_sentence_simple_word
    \/ compute_accent_head
    \/ compute_accent_fold
    \/ compute_accent_finish
    \/ process_sentence_annotate
    \/ process_sentence_raise
    \/ process_sentence_return
    \/ process_sentences_return

SpecDriver == InitDriver /\ [][NextDriver]_vars

-----------------------------------------------------------------------------
(* Properties of accent_to_pattern, apply_f_rule and apply_mod_type.       *)

returned(f) == pc = "return" /\ fn = f

\* the positions i at which pattern p is H at i and L at i + 1 (1-indexed)
HLTransitions(p) == {i \in 1..(Len(p) - 1) : p[i] = "H" /\ p[i + 1] = "L"}

\* the H-to-L transitions that lie wholly inside the first m positions of p
HLTransitionsWithin(p, m) == {i \in HLTransitions(p) : i + 1 <= m}

\* C2: for m >= 1, a >= 0 and 1 <= k <= m, the pattern with the particle
\* position has exactly one H-to-L transition, lying between positions k and
\* k + 1, if and only if a = k.
C2_UniqueDropAtAccent ==
    (returned("accent_to_pattern") /\ args.include_particle
        /\ args.mora_count >= 1 /\ args.accent_type >= 0)
    => \A k \in 1..args.mora_count :
           (HLTransitions(ret) = {k}) <=> (args.accent_type = k)

C2_Witness ==
    /\ returned("accent_to_pattern") /\ args.include_particle
    /\ args.mora_count = 3 /\ args.accent_type = 2
    /\ HLTransitions(ret) = {2}

\* C3 as stated: for m >= 1 and a >= 0, a = 0 if and only if the pattern has
\* no H-to-L transition within its first m positions.
C3_Original ==
    (returned("accent_to_pattern") /\ args.mora_count >= 1 /\ args.accent_type >= 0)
    => ((args.accent_type = 0) <=> (HLTransitionsWithin(ret, args.mora_count) = {}))

\* C3 as amended: the equivalence holds for the accents 0 <= a < m; the drop
\* of a = m falls between the last mora and the particle position, and an
\* accent beyond it produces no drop at all.
C3_HeibanIffNoDropInside ==
    (returned("accent_to_pattern") /\ args.mora_count >= 1
        /\ args.accent_type >= 0 /\ args.accent_type < args.mora_count)
    => ((args.accent_type = 0) <=> (HLTransitionsWithin(ret, args.mora_count) = {}))

C3_Witness ==
    /\ returned("accent_to_pattern")
    /\ args.mora_count = 3 /\ args.accent_type = 1
    /\ HLTransitionsWithin(ret, args.mora_count) = {1}

\* C4: apply_f_rule returns F1 -> a; F2 -> N+M if a = 0 else a; F3 -> 0 if
\* a = 0 else N+M; F4 -> N+M; F5 -> 0; F6 -> N+M if a = 0 else N+L, where an
\* absent M or L counts as 0.
C4_FRuleTable ==
    returned("apply_f_rule") =>
        LET a == args.prev_accent
            N == args.prev_mora
            M == IF args.m_val = None THEN 0 ELSE args.m_val[1]
            L == IF args.l_val = None THEN 0 ELSE args.l_val[1]
            kind == args.f_type[2] - ch_0
        IN  ret = CASE kind = 1 -> a
                    [] kind = 2 -> IF a = 0 THEN N + M ELSE a
                    [] kind = 3 -> IF a = 0 THEN 0 ELSE N + M
                    [] kind = 4 -> N + M
                    [] kind = 5 -> 0
                    [] kind = 6 -> IF a = 0 THEN N + M ELSE N + L

C4_Witness ==
    /\ returned("apply_f_rule")
    /\ args.f_type = str_F6 /\ args.prev_accent = 2 /\ args.prev_mora = 3
    /\ args.m_val = Some(1) /\ args.l_val = Some(-1)
    /\ ret = 2

\* a spec that is M<k>@<n> and nothing else: the letter M, the digit k, '@',
\* an optional '-', one or more digits
IsModSpec(s, k) ==
    /\ Len(s) >= 4
    /\ s[1] = ch_M /\ s[2] = k /\ s[3] = ch_at
    /\ LET from == IF s[4] = ch_minus THEN 5 ELSE 4 IN
       /\ from <= Len(s)
       /\ \A i \in from..Len(s) : IsDigit(s[i])

ModSpecN(s) ==
    IF s[4] = ch_minus THEN -DecVal(SubSeq(s, 5, Len(s)))
    ELSE DecVal(SubSeq(s, 4, Len(s)))

\* C5: apply_mod_type returns 0 for M4@n when a = 0 and max(0, a - n) when
\* a > 0, returns n for M1@n, and returns a unchanged for '*', an empty spec
\* and any other spec.
C5_ModTypeTable ==
    returned("apply_mod_type") =>
        LET s == args.mod_type
            a == args.base_accent
        IN  ret = IF IsModSpec(s, ch_4)
                  THEN (IF a = 0 THEN 0 ELSE Max(0, a - ModSpecN(s)))
                  ELSE IF IsModSpec(s, ch_1) THEN ModSpecN(s)
                  ELSE a

\* The part of C5 the code does satisfy: the table on the specs that are
\* M4@n, M1@n, '*' or empty, and on those that do not begin with the letter M.
C5_WellFormedSpecs ==
    (returned("apply_mod_type")
        /\ (\/ IsModSpec(args.mod_type, ch_4) \/ IsModSpec(args.mod_type, ch_1)
            \/ args.mod_type = <<>> \/ args.mod_type[1] # ch_M))
    => C5_ModTypeTable

-----------------------------------------------------------------------------
(* Properties of compute_accent.                                           *)

\* C1: the pattern of a word of m mora has length m without the particle
\* position and m + 1 with it, whatever the computed accent; in particular
\* every AccentResult of compute_accent has len(pattern) = mora_count + 1.
C1_PatternLength ==
    (returned("compute_accent") /\ args.morphemes # <<>>)
    => Len(ret.pattern) = ret.mora_count + 1

\* C6: every AccentResult of compute_accent for a non-empty morpheme list has
\* 0 <= accent_type <= mora_count + 1.
C6_AccentInRange ==
    (returned("compute_accent") /\ args.morphemes # <<>>)
    => (0 <= ret.accent_type /\ ret.accent_type <= ret.mora_count + 1)

-----------------------------------------------------------------------------
(* Properties of compute_compound_accent.                                  *)

\* the number of trailing code points of r that are n, the sokuon or the long mark
RECURSIVE TrailingSpecial(_)
TrailingSpecial(r) ==
    IF r # <<>> /\ r[Len(r)] \in {hira_n, hira_sokuon, long_mark}
    THEN 1 + TrailingSpecial(SubSeq(r, 1, Len(r) - 1))
    ELSE 0

C8_LongN2 ==
    (returned("compute_compound_accent")
        /\ args.n2_surface \notin HEIBAN_SUFFIXES
        /\ compound_count_mora(args.n2_reading) >= 3)
    => LET n1 == compound_count_mora(args.n1_reading)
           n2 == compound_count_mora(args.n2_reading)
           a2 == args.n2_accent
       IN  ret[1] = IF n2 <= 4
                    THEN (IF a2 = 0 \/ a2 = n2 THEN n1 + 1 ELSE n1 + a2)
                    ELSE (IF a2 = 0 THEN 0 ELSE n1 + a2)

\* an odaka N2 of three mora after an N1 of two
C8_Witness ==
    /\ returned("compute_compound_accent")
    /\ args.n2_surface \notin HEIBAN_SUFFIXES
    /\ compound_count_mora(args.n2_reading) = 3 /\ args.n2_accent = 3
    /\ compound_count_mora(args.n1_reading) = 2
    /\ ret[1] = 3

-----------------------------------------------------------------------------
(* Properties of compute_multi_noun_compound.                              *)

Front(q) == SubSeq(q, 1, Len(q) - 1)
Last(q) == q[Len(q)]

\* C9: for every sequence of two or more components whose last surface is a
\* heiban suffix, the accent is 0 and the rule of the last step is
\* heiban_suffix, whatever the readings, lengths and accents are.
C9_HeibanSuffixLast ==
    (returned("compute_multi_noun_compound")
        /\ Len(args.components) >= 2
        /\ Last(args.components)[1] \in HEIBAN_SUFFIXES)
    => /\ ret[1] = 0
       /\ Len(ret[3]) = Len(args.components) - 1
       /\ Last(ret[3]).rule = <<"heiban_suffix">>
       /\ Last(ret[3]).n2 = Last(args.components)[1]

\* three components, the last a four-mora suffix after a front whose own
\* compound accent is not 0
C9_Witness ==
    /\ returned("compute_multi_noun_compound")
    /\ Len(args.components) = 3
    /\ Last(args.components)[1] \in HEIBAN_SUFFIXES
    /\ compound_count_mora(Last(args.components)[2]) = 4
    /\ compute_multi_noun_compound(Front(args.components))[1] > 0
    /\ ret[1] = 0

\* C10: the result on [A, B, C] has the accent and the reading of the result
\* on [AB, C], AB being the one component that carries the reading and the
\* accent of the result on [A, B]; in general the result on k >= 2 components
\* is compute_compound_accent of the result on the first k - 1 and the last,
\* its reading the concatenation in list order.
C10_LeftFold ==
    (returned("compute_multi_noun_compound") /\ Len(args.components) >= 2)
    => LET q == args.components
           AB == compute_multi_noun_compound(Front(q))
           C == Last(q)
           merged == <<Front(q)[1][1], AB[2], AB[1]>>
           viaAB == compute_multi_noun_compound(<<merged, C>>)
       IN  /\ ret[1] = viaAB[1] /\ ret[2] = viaAB[2]
           /\ ret[1] = compute_compound_accent(AB[2], AB[1], C[2], C[3], C[1])[1]
           /\ ret[2] = AB[2] \o C[2]

\* three components whose last step depends on the reading of the first two:
\* N1 of the last step is not the first component alone
C10_Witness ==
    /\ returned("compute_multi_noun_compound")
    /\ Len(args.components) = 3
    /\ Last(args.components)[1] \notin HEIBAN_SUFFIXES
    /\ LET q == args.components
       IN  /\ ret[1] # compute_compound_accent(q[1][2], q[1][3], q[3][2], q[3][3], q[3][1])[1]
           /\ ret[1] > 0
           /\ ret[2] = q[1][2] \o q[2][2] \o q[3][2]

-----------------------------------------------------------------------------
(* Properties of compute_numeral_phrase_accent.                            *)

\* the override code of the call: a number, or None when the table has no
\* entry for (numeral, category)
OverrideCode ==
    LET key == <<args.numeral, get_counter_category(args.counter)>> IN
    IF \E e \in args.overrides : e[1] = key
    THEN Some((CHOOSE e \in args.overrides : e[1] = key)[2]) ELSE None

\* C11: with n1 the mora count of the numeral reading after alternation, the
\* accent is: for code 0, or a numeral <= 10 with no entry, n1 if the counter
\* reading has at most 2 mora and n1 + 1 otherwise; for code 1, 0; for code 2,
\* n1 + 1; for code 3, the total mora count; for a numeral > 10 with no entry, 0.
C11_NumeralTable ==
    returned("compute_numeral_phrase_accent")
    => LET rd == get_numeral_counter_reading(args.numeral, args.counter)
           n1 == numeral_count_mora(rd[1])
           counter_mora == numeral_count_mora(rd[2])
           code == OverrideCode
       IN  /\ (code = Some(0) \/ (code = None /\ args.numeral <= 10))
                => ret[1] = IF counter_mora <= 2 THEN n1 ELSE n1 + 1
           /\ code = Some(1) => ret[1] = 0
           /\ code = Some(2) => ret[1] = n1 + 1
           /\ code = Some(3) => ret[1] = n1 + counter_mora
           /\ (code = None /\ args.numeral > 10) => ret[1] = 0

\* a numeral <= 10 with no entry before a counter of four mora: 5 meetoru
C11_Witness ==
    /\ returned("compute_numeral_phrase_accent")
    /\ args.numeral = 5 /\ args.counter = <<\h30E1, \h30FC, \h30C8, \h30EB>>
    /\ OverrideCode = None
    /\ ret[1] = 2

\* a call under code 3: 2 mai, accent on the last of its three mora
C11_WitnessCode3 ==
    /\ returned("compute_numeral_phrase_accent")
    /\ OverrideCode = Some(3)
    /\ args.numeral = 2 /\ args.counter = <<\h679A>>
    /\ ret[1] = 3

\* C12: with the shipped tables, (3, hon) reads sanbon with accent 2, (1, hon)
\* reads ippon with accent 3, and (1, nin) reads hitori with accent 2.
C12_ShippedExamples ==
    (returned("compute_numeral_phrase_accent")
        /\ args.overrides = NUMERAL_COUNTER_OVERRIDES)
    => /\ (args.numeral = 3 /\ args.counter = <<\h672C>>)
            => (ret[2] = <<\h3055, \h3093, \h307C, \h3093>> /\ ret[1] = 2)
       /\ (args.numeral = 1 /\ args.counter = <<\h672C>>)
            => (ret[2] = <<\h3044, \h3063, \h307D, \h3093>> /\ ret[1] = 3)
       /\ (args.numeral = 1 /\ args.counter = <<\h4EBA>>)
            => (ret[2] = <<\h3072, \h3068, \h308A>> /\ ret[1] = 2)

\* the call (1, hon) under the shipped table has returned
C12_Witness ==
    /\ returned("compute_numeral_phrase_accent")
    /\ args.overrides = NUMERAL_COUNTER_OVERRIDES
    /\ args.numeral = 1 /\ args.counter = <<\h672C>>
    /\ ret[1] = 3

-----------------------------------------------------------------------------
(* Properties of AnkiGenerator.process_sentences.                          *)

\* the annotation of the word fails: its accent string is no integer
AnnotationFails(word) ==
    LET a == IF word.is_compound THEN word.aType
             ELSE Split(word.morphemes[1].aType, ch_comma)[1]
    IN  a # <<>> /\ a # <<ch_star>> /\ py_int(a) = None

\* C13: when the annotation of one content word of a sentence fails, the
\* driver still returns the annotations of all other content words of that
\* sentence and leaves the failing word out; no sentence loses its card.
C13_WordFailureIsolated ==
    (fn = "process_sentences" /\ pc = "return")
    => /\ Len(ret) = Len(args.sentences)
       /\ \A k \in 1..Len(ret) :
            LET words == args.sentences[k]
                kept == SelectSeq(words, LAMBDA word : ~AnnotationFails(word))
            IN  /\ ret[k].front = words
                /\ Len(ret[k].back) = Len(kept)
                /\ \A j \in 1..Len(kept) : ret[k].back[j][1] = kept[j].surface

-----------------------------------------------------------------------------
(* Properties of compute_accent: malformed strings and the breakdown.      *)

\* C14: for every morpheme list, a malformed aType, aConType or aModType is
\* treated as absent: compute_accent does not raise, and its breakdown has an
\* entry for every morpheme.
C14_MalformedTreatedAsAbsent ==
    fn = "compute_accent"
    => /\ pc # "raise"
       /\ pc = "return" => Len(ret.breakdown) = Len(args.morphemes)

\* the terms of an aConType written for the lookup key of the head's POS
TermsFor(acon, pos_key) ==
    SelectSeq(Split(acon, ch_comma),
        LAMBDA part : /\ IndexOf(part, ch_percent) > 0
                      /\ SubSeq(part, 1, IndexOf(part, ch_percent) - 1) = pos_key)

\* the term's rule is F<code> with a code outside 1..6
CodeOutsideF1toF6(part) ==
    LET spec == SubSeq(part, IndexOf(part, ch_percent) + 1, Len(part))
        n == IF Len(spec) >= 2 /\ spec[1] = ch_F THEN DigitRun(spec, 2) ELSE 0
    IN  n >= 1 /\ DecVal(SubSeq(spec, 2, n + 1)) \notin 1..6

\* C15: compute_accent appends exactly one breakdown entry per morpheme, and
\* for an auxiliary whose aConType has no term for the head's POS, or whose
\* term carries a rule code outside F1..F6, the running accent is unchanged
\* and the auxiliary's entry says 'no F-rule found'.
C15_BreakdownPerMorpheme ==
    (returned("compute_accent") /\ args.morphemes # <<>>)
    => /\ Len(ret.breakdown) = Len(args.morphemes)
       /\ \A k \in 2..Len(args.morphemes) :
            LET terms == TermsFor(args.morphemes[k].aConType,
                                  pos_key_of(args.morphemes[1].pos1))
            IN  (\A t \in 1..Len(terms) : CodeOutsideF1toF6(terms[t]))
                => /\ ret.breakdown[k].note = "no F-rule found"
                   /\ ret.breakdown[k].accent = ret.breakdown[k - 1].accent

\* the part of C15 that holds: one entry per morpheme, and an auxiliary whose
\* aConType has no term for the head's POS keeps the accent under the note
\* 'no F-rule found'
C15_NoTermKeepsAccent ==
    (returned("compute_accent") /\ args.morphemes # <<>>)
    => /\ Len(ret.breakdown) = Len(args.morphemes)
       /\ \A k \in 2..Len(args.morphemes) :
            TermsFor(args.morphemes[k].aConType,
                     pos_key_of(args.morphemes[1].pos1)) = <<>>
            => /\ ret.breakdown[k].note = "no F-rule found"
               /\ ret.breakdown[k].accent = ret.breakdown[k - 1].accent

-----------------------------------------------------------------------------
(* Properties of process_numeral_phrase.                                   *)

\* C16: when the surfaces of the numeral morphemes contain no parsable integer
\* (a kanji numeral, for one), the merged morpheme is heiban (aType "0") and
\* its reading is the surface of the phrase.
C16_UnparsableNumeralIsHeiban ==
    (returned("process_numeral_phrase")
        /\ int_of_digits(SelectSeq(join_surfaces(args.numeral_morphemes), py_isdigit)) = None)
    => /\ ret.aType = <<ch_0>>
       /\ ret.reading = ret.surface
       /\ ret.surface = join_surfaces(args.numeral_morphemes) \o args.counter_morpheme.surface

-----------------------------------------------------------------------------
(* Properties of SentenceParser.parse_sentence.                            *)

\* the morphemes of a list of words, in the order of the words
RECURSIVE MorphemesOf(_)
MorphemesOf(words) ==
    IF words = <<>> THEN <<>>
    ELSE Head(words).morphemes \o MorphemesOf(Tail(words))

\* C17: the emitted words partition the morpheme stream: no word is empty, the
\* words' morphemes laid end to end are the stream's morphemes one for one and
\* in the input order (so every morpheme is in exactly one word), each word's
\* surface is the concatenation of its morphemes' surfaces, and the words'
\* surfaces laid end to end are the morphemes' surfaces laid end to end.
C17_WordsPartitionStream ==
    returned("parse_sentence")
    => /\ \A k \in 1..Len(ret.words) : Len(ret.words[k].morphemes) >= 1
       /\ MorphemesOf(ret.words)
            = [k \in 1..Len(args.nodes) |-> morpheme_of(args.nodes[k])]
       /\ \A k \in 1..Len(ret.words) :
            ret.words[k].surface = join_surfaces(ret.words[k].morphemes)
       /\ join_surfaces(ret.words) = join_surfaces(args.nodes)

\* a stream of three morphemes parsed into two words, the first of them a
\* word of two morphemes
C17_Witness ==
    /\ returned("parse_sentence")
    /\ Len(args.nodes) = 3
    /\ Len(ret.words) = 2
    /\ Len(ret.words[1].morphemes) = 2

\* C18: a word whose first morpheme has pos1 in SKIP_POS is not a content word
\* and is absent from content_words(), whatever its pos2.
C18_SkipPosNeverContent ==
    returned("parse_sentence")
    => \A k \in 1..Len(ret.words) :
         ret.words[k].morphemes[1].pos1 \in SKIP_POS
         => /\ ~ret.words[k].is_content_word
            /\ \A c \in 1..Len(content_words(ret)) :
                 content_words(ret)[c] # ret.words[k]

-----------------------------------------------------------------------------
(* Properties of number_to_reading.                                        *)

\* the places oku, man, sen, hyaku, juu with their markers, largest first
ReadingPlaces ==
    <<<<100000000, <<\h304A, \h304F>>>>, <<10000, <<\h307E, \h3093>>>>,
      <<1000, <<\h305B, \h3093>>>>, <<100, <<\h3072, \h3083, \h304F>>>>,
      <<10, <<\h3058, \h3085, \h3046>>>>>>

\* the readings of the digits 1..9: ichi, ni, san, yon, go, roku, nana, hachi, kyuu
DigitReadings ==
    <<<<\h3044, \h3061>>, <<\h306B>>, <<\h3055, \h3093>>, <<\h3088, \h3093>>, <<\h3054>>,
      <<\h308D, \h304F>>, <<\h306A, \h306A>>, <<\h306F, \h3061>>, <<\h304D, \h3085, \h3046>>>>

\* the reading the claim describes for n >= 1: over the places from the k-th
\* on, the reading of a quotient above 1 and the marker of a non-zero
\* quotient, then the reading of the ones digit
RECURSIVE PlacewiseReading(_, _)
PlacewiseReading(n, k) ==
    IF k > Len(ReadingPlaces) THEN (IF n > 0 THEN DigitReadings[n] ELSE <<>>)
    ELSE LET place == ReadingPlaces[k][1]
             q == n \div place
         IN  (IF q = 0 THEN <<>>
              ELSE (IF q > 1 THEN PlacewiseReading(q, 1) ELSE <<>>) \o ReadingPlaces[k][2])
             \o PlacewiseReading(n % place, k + 1)

\* C19: for n >= 1, number_to_reading(n) is the concatenation over the places
\* with a non-zero quotient q, largest first, of the reading of q (nothing for
\* q = 1) and the place marker, and then the reading of the non-zero ones
\* digit; number_to_reading(0) is zero, and number_to_reading(-n) is mainasu
\* before number_to_reading(n).
C19_PlacewiseReading ==
    returned("number_to_reading")
    => /\ args.n >= 1 => ret = PlacewiseReading(args.n, 1)
       /\ args.n = 0 => ret = <<\h30BC, \h30ED>>
       /\ args.n < 0 => ret = <<\h30DE, \h30A4, \h30CA, \h30B9>> \o PlacewiseReading(-args.n, 1)

\* 1952 reads sen kyuu hyaku go juu ni: the quotients 1 at sen, 9 at hyaku, 5
\* at juu
C19_Witness ==
    /\ returned("number_to_reading")
    /\ args.n = 1952
    /\ ret = <<\h305B, \h3093, \h304D, \h3085, \h3046, \h3072, \h3083, \h304F,
               \h3054, \h3058, \h3085, \h3046, \h306B>>

-----------------------------------------------------------------------------
(* Properties of count_mora and _kata_to_hira.                             *)

\* C20: for every kana string s, count_mora(kata_to_hira(s)) = count_mora(s),
\* for the count_mora of the accent engine and for the one of the compound
\* engine, and kata_to_hira keeps the number of code points.
C20_MoraCountKept ==
    returned("_kata_to_hira")
    => /\ count_mora(ret) = count_mora(args.text)
       /\ compound_count_mora(ret) = compound_count_mora(args.text)
       /\ Len(ret) = Len(args.text)

\* katakana ka, small ya and sokuon: two mora before and after the conversion
C20_Witness ==
    /\ returned("_kata_to_hira")
    /\ args.text = <<\h30AB, \h30E3, \h30C3>>
    /\ ret = <<\h304B, \h3083, \h3063>>
    /\ count_mora(ret) = 2

-----------------------------------------------------------------------------
(* Properties of the AccentEngine object.                                  *)

-----------------------------------------------------------------------------
(* Properties of compute_accent: the fold.                                 *)

\* the accumulator of the left fold after the first k morphemes of ms: the
\* head's base accent shifted by its aModType and its mora count for k = 1;
\* for k > 1 the F-rule of ms[k], looked up under the head's POS, applied to
\* the accent and the mora count of the first k - 1 morphemes
RECURSIVE Fold(_, _)
Fold(ms, k) ==
    IF k = 1
    THEN LET head == ms[1]
             base == IF head.aType # <<>> /\ head.aType # <<ch_star>>
                     THEN py_int(Split(head.aType, ch_comma)[1])[1] ELSE 0
         IN  [accent |-> IF head.aModType # <<>> /\ head.aModType # <<ch_star>>
                         THEN apply_mod_type(head.aModType, base) ELSE base,
              mora |-> count_mora(head.reading)]
    ELSE LET rule == parse_acon_for_pos(ms[k].aConType, pos_key_of(ms[1].pos1))
             step(a) ==
                 [accent |-> IF rule = None THEN a.accent
                             ELSE apply_f_rule(rule[1].type, rule[1].M, rule[1].L,
                                               a.accent, a.mora),
                  mora |-> a.mora + count_mora(ms[k].reading)]
         IN  step(Fold(ms, k - 1))

RECURSIVE MoraSum(_)
MoraSum(ms) == IF ms = <<>> THEN 0 ELSE count_mora(Head(ms).reading) + MoraSum(Tail(ms))

\* C22: compute_accent is the left fold in document order.  Inside the loop,
\* before the morpheme at next_morph is folded, the running accent and mora
\* count are the fold of the morphemes before it; the result has the accent
\* of the whole fold, the sum of all mora counts, and as surface and reading
\* the concatenated surfaces and (hiragana) readings in input order.
C22_LeftFold ==
    (fn = "compute_accent" /\ args.morphemes # <<>>)
    => /\ pc = "loop"
          => /\ current_accent = Fold(args.morphemes, next_morph - 1).accent
             /\ current_mora = Fold(args.morphemes, next_morph - 1).mora
       /\ pc = "return"
          => /\ ret.accent_type = Fold(args.morphemes, Len(args.morphemes)).accent
             /\ ret.mora_count = MoraSum(args.morphemes)
             /\ ret.surface = join_surfaces(args.morphemes)
             /\ ret.reading = join_surfaces([k \in 1..Len(args.morphemes) |->
                                  [surface |-> kata_to_hira(args.morphemes[k].reading)]])

\* a chain with two auxiliaries whose F-rules both change the accent
C22_Witness ==
    /\ returned("compute_accent")
    /\ Len(args.morphemes) = 3
    /\ ret.breakdown[2].note = "F-rule" /\ ret.breakdown[2].accent # ret.breakdown[2].M1
    /\ ret.breakdown[3].note = "F-rule" /\ ret.breakdown[3].accent # ret.breakdown[3].M1

\* the rule of the first term of acon that is written for pos_key and whose
\* spec is an F-rule, or None
SelectedRule(acon, pos_key) ==
    LET spec(part) == SubSeq(part, IndexOf(part, ch_percent) + 1, Len(part))
        terms == SelectSeq(TermsFor(acon, pos_key),
                           LAMBDA part : acon_match(spec(part)) # None)
    IN  IF terms = <<>> THEN None ELSE acon_match(spec(terms[1]))

\* the lookup key of the chain: the head's POS mapped to doushi, keiyoushi or
\* meishi
HeadKey(ms) ==
    IF Contains(ms[1].pos1, pos_doushi) THEN pos_doushi
    ELSE IF Contains(ms[1].pos1, pos_keiyoushi) THEN pos_keiyoushi
    ELSE pos_meishi

\* C23: in every fold of a chain the F-rule applied to an auxiliary is the one
\* its aConType gives for the head's POS key, whatever was folded before it:
\* the breakdown entry of auxiliary k records that rule, or "no F-rule found"
\* when the aConType has none for that key.
C23_HeadKeySelectsRule ==
    (returned("compute_accent") /\ args.morphemes # <<>>)
    => \A k \in 2..Len(args.morphemes) :
         LET rule == SelectedRule(args.morphemes[k].aConType, HeadKey(args.morphemes)) IN
         IF rule = None THEN ret.breakdown[k].note = "no F-rule found"
         ELSE /\ ret.breakdown[k].note = "F-rule"
              /\ ret.breakdown[k].rule = rule[1]

\* a noun head, then an auxiliary, then an auxiliary whose aConType has one
\* rule for a noun and another for a verb
C23_Witness ==
    /\ returned("compute_accent")
    /\ Len(args.morphemes) = 3
    /\ args.morphemes[1].pos1 = pos_meishi
    /\ args.morphemes[2].pos1 = pos_jodoushi
    /\ SelectedRule(args.morphemes[3].aConType, pos_meishi) # None
    /\ SelectedRule(args.morphemes[3].aConType, pos_doushi) # None
    /\ SelectedRule(args.morphemes[3].aConType, pos_meishi)
         # SelectedRule(args.morphemes[3].aConType, pos_doushi)

-----------------------------------------------------------------------------
(* Properties of SentenceParser.parse_sentence: grouping.                  *)

\* a morpheme that extends a noun run, and one that attaches to a verb or an
\* adjective
NounLike(m) ==
    \/ m.pos1 = pos_meishi
    \/ m.pos2 \in {<<\h6570, \h8A5E>>, <<\h52A9, \h6570, \h8A5E>>}
    \/ m.pos1 = <<\h63A5, \h5C3E, \h8F9E>> /\ m.pos2 = <<\h540D, \h8A5E, \h7684>>
Attaches(m) ==
    \/ m.pos1 = pos_jodoushi
    \/ m.pos1 = pos_joshi /\ m.pos2 = <<\h63A5, \h7D9A, \h52A9, \h8A5E>>

\* a word that starts a noun run, and one that starts with a verb or adjective
NounRunWord(w) ==
    \/ w.morphemes[1].pos1 \in {pos_meishi, <<\h4EE3, \h540D, \h8A5E>>}
    \/ w.morphemes[1].pos2 \in {<<\h6570, \h8A5E>>, <<\h52A9, \h6570, \h8A5E>>}
VerbWord(w) == ~NounRunWord(w) /\ w.morphemes[1].pos1 \in {pos_doushi, pos_keiyoushi}

\* the index in the stream of the first morpheme after word k
RECURSIVE EndOf(_, _)
EndOf(words, k) == IF k = 0 THEN 1 ELSE EndOf(words, k - 1) + Len(words[k].morphemes)

\* C24: grouping is greedy and maximal.  Inside a noun-run word every
\* morpheme after the first is noun-like and the morpheme that follows the
\* word in the stream is not; inside a verb or adjective word every morpheme
\* after the head is an auxiliary or a conjunctive particle and the morpheme
\* that follows the word is not.
C24_GreedyMaximal ==
    returned("parse_sentence")
    => \A k \in 1..Len(ret.words) :
         LET w == ret.words[k]
             after == EndOf(ret.words, k)
             follower == morpheme_of(args.nodes[after])
         IN  /\ NounRunWord(w)
                => /\ \A i \in 2..Len(w.morphemes) : NounLike(w.morphemes[i])
                   /\ after <= Len(args.nodes) => ~NounLike(follower)
             /\ VerbWord(w)
                => /\ \A i \in 2..Len(w.morphemes) : Attaches(w.morphemes[i])
                   /\ after <= Len(args.nodes) => ~Attaches(follower)

\* a noun run of two morphemes followed by a verb with an auxiliary
C24_Witness ==
    /\ returned("parse_sentence")
    /\ Len(args.nodes) = 4
    /\ Len(ret.words) = 2
    /\ NounRunWord(ret.words[1]) /\ Len(ret.words[1].morphemes) = 2
    /\ VerbWord(ret.words[2]) /\ Len(ret.words[2].morphemes) = 2

-----------------------------------------------------------------------------
(* Properties of SentenceParser._process_noun_sequence.                    *)

NumeralsOf(ms) == SelectSeq(ms, LAMBDA m : m.pos2 = <<\h6570, \h8A5E>>)
CountersOf(ms) == SelectSeq(ms, LAMBDA m : m.pos2 = <<\h52A9, \h6570, \h8A5E>>)
NumeralRun(ms) == NumeralsOf(ms) # <<>> /\ CountersOf(ms) # <<>>

C26_NumeralWordIsMergedUnit ==
    returned("parse_sentence")
    => \A k \in 1..Len(ret.words) :
         LET w == ret.words[k]
             ms == w.morphemes
         IN  (NounRunWord(w) /\ NumeralRun(ms))
             => /\ w.reading = process_numeral_phrase(NumeralsOf(ms), CountersOf(ms)[1])[1].reading
                /\ w.aType = process_numeral_phrase(NumeralsOf(ms), CountersOf(ms)[1])[1].aType

-----------------------------------------------------------------------------
(* Properties of compute_compound_accent: where the nucleus falls.         *)

\* the code point that carries mora number a of reading r (small kana belong
\* to the mora before them), for 1 <= a <= compound_count_mora(r)
RECURSIVE MoraAt(_, _)
MoraAt(r, a) ==
    IF Head(r) \in COMPOUND_SMALL_KANA THEN MoraAt(Tail(r), a)
    ELSE IF a = 1 THEN Head(r)
    ELSE MoraAt(Tail(r), a - 1)

\* C27: in the N2 <= 2 case the nucleus is never on a special mora of N1: the
\* mora of N1 at the returned accent is not n, the sokuon or the long mark,
\* and is not the second element of a long-vowel pair that ends N1's reading.
C27_NucleusNotOnSpecialMora ==
    (returned("compute_compound_accent")
        /\ args.n2_surface \notin HEIBAN_SUFFIXES
        /\ compound_count_mora(args.n2_reading) <= 2
        /\ 1 <= ret[1] /\ ret[1] <= compound_count_mora(args.n1_reading))
    => LET r == args.n1_reading IN
       /\ MoraAt(r, ret[1]) \notin SPECIAL_MORA
       /\ ~(/\ ret[1] = compound_count_mora(r)
            /\ Len(r) >= 2
            /\ SubSeq(r, Len(r) - 1, Len(r)) \in LONG_VOWEL_ENDINGS)

-----------------------------------------------------------------------------
(* Properties of the compound accent: what it depends on.                  *)

\* the components with the accent of every component but the last set to a
WithEarlierAccents(q, a) ==
    [k \in 1..Len(q) |-> IF k < Len(q) THEN <<q[k][1], q[k][2], a>> ELSE q[k]]

\* C28: the compound accent does not depend on N1's accent.  The last step of
\* a sequence gives the same accent and rule for every n1_accent, and the
\* final accent of the sequence is the same whatever accents the earlier
\* components have: they count only through their readings.
C28_IndependentOfN1Accent ==
    (returned("compute_multi_noun_compound") /\ Len(args.components) >= 2)
    => LET q == args.components
           C == Last(q)
           front == compute_multi_noun_compound(Front(q))[2]
       IN  \A a \in 0..MaxN2Accent :
             /\ compute_compound_accent(front, a, C[2], C[3], C[1])
                  = <<ret[1], Last(ret[3]).rule>>
             /\ compute_multi_noun_compound(WithEarlierAccents(q, a))[1] = ret[1]

\* three components, the first two with different accents, and a final
\* accent that is not 0
C28_Witness ==
    /\ returned("compute_multi_noun_compound")
    /\ Len(args.components) = 3
    /\ args.components[1][3] # args.components[2][3]
    /\ args.components[1][3] > 0
    /\ ret[1] > 0

-----------------------------------------------------------------------------
(* Properties of the merged accent: it stays inside the merged word.       *)

\* every component's accent lies inside its own reading
AccentsInside(q) ==
    \A k \in 1..Len(q) : 0 <= q[k][3] /\ q[k][3] <= compound_count_mora(q[k][2])

\* C29: merged accents stay inside the merged word.  For components whose
\* accents each lie between 0 and their own mora count, the accent of
\* compute_multi_noun_compound lies between 0 and the mora count of the merged
\* reading; for a numeral >= 0 and any counter, the accent of
\* compute_numeral_phrase_accent lies between 0 and the mora count of the
\* reading it returns.
C29_MergedAccentInRange ==
    /\ (returned("compute_multi_noun_compound") /\ AccentsInside(args.components))
       => (0 <= ret[1] /\ ret[1] <= compound_count_mora(ret[2]))
    /\ (returned("compute_numeral_phrase_accent") /\ args.numeral >= 0)
       => (0 <= ret[1] /\ ret[1] <= numeral_count_mora(ret[2]))

\* three components, the last of five mora with its accent on its last mora:
\* the merged accent is the last mora of the merged reading
C29_Witness ==
    /\ returned("compute_multi_noun_compound")
    /\ Len(args.components) = 3
    /\ AccentsInside(args.components)
    /\ Last(args.components)[3] = 5
    /\ ret[1] = compound_count_mora(ret[2])

-----------------------------------------------------------------------------
(* Properties of the loop of parse_sentence: it ends.                      *)

\* C30: parse_sentence terminates on every finite morpheme stream.  Each pass
\* of the outer loop that stays in the loop moves i strictly forward and never
\* past the end of the stream (the inner loops stop there); the words emitted
\* so far never outnumber the morphemes consumed, so the returned words are at
\* most as many as the morphemes; and every run reaches the return or the
\* exception that leaves the function.
C30_Terminates ==
    /\ [][pc' = "loop" => /\ parser'.i > parser.i
                          /\ parser'.i <= Len(args.nodes) + 1
                          /\ Len(parser'.words) <= parser'.i - 1]_<<pc, parser>>
    /\ [](pc = "return" => Len(ret.words) <= Len(args.nodes))
    /\ <>(pc \in {"return", "raise"})

\* a returned parse of MaxScanNodes morphemes in which a run took several
\* morphemes and ended with the stream, and a single word came before it
C30_Witness ==
    /\ fn = "parse_sentence" /\ pc = "return" /\ parser # <<>>
    /\ Len(args.nodes) = MaxScanNodes
    /\ Len(ret.words) = 2
    /\ Len(Last(ret.words).morphemes) = MaxScanNodes - 1

====
